---- MODULE Spec2Model ----
(***************************************************************************)
(* A model of the entertainment MCP server.  The ratings side: the         *)
(* OmdbService class (its memo, getByTitle with its type-guessing retry,   *)
(* getImdbSummary, getByImdbId) and the GET_OMDB_INFO tool handler that    *)
(* calls it.  The metadata side: the TmdbService class (its operations,    *)
(* the two joined batches of per-record fetches that enrich a result list) *)
(* and the tool handlers that call it.  An async method is modelled by two *)
(* kinds of action: the call (the code that runs synchronously up to the   *)
(* await on fetchJson) and the resumption (the code that runs when an      *)
(* awaited fetch settles).                                                 *)
(***************************************************************************)
EXTENDS Integers, Sequences, FiniteSets, TLC

VARIABLES
    omdbApiKey,   \* config.omdbApi.apiKey, read once when the process starts
    cache,        \* cache[s]: the Map of the s-th OmdbService instance
    calls,        \* every method call made so far, in the order it was made
    now,          \* logical clock: one tick per call made and per call returned
    tmdbApiKey,   \* config.tmdbApi.apiKey, read once when the process starts
    run,          \* the TmdbService operation in progress, or the last one
    handler,      \* the tool handler in progress, or the last one
    requests      \* every request a TmdbService has issued so far, in order

tmdbVars == <<tmdbApiKey, run, handler, requests>>
vars == <<omdbApiKey, cache, calls, now, tmdbApiKey, run, handler, requests>>

----------------------------------------------------------------------------
(* Bounds of the model.                                                    *)

MaxCalls == 2
MaxIdCalls == 3
MaxTitleCalls == 3
MaxToolRuns == 2
MaxResults == 2
MaxDirectCalls == 1
MaxDiscovered == 6

----------------------------------------------------------------------------
(* Strings the code inspects are sequences of characters.                  *)

toLowerCaseChar(c) ==
    LET Upper == <<"A","B","C","D","E","F","G","H","I","J","K","L","M",
                   "N","O","P","Q","R","S","T","U","V","W","X","Y","Z">>
        Lower == <<"a","b","c","d","e","f","g","h","i","j","k","l","m",
                   "n","o","p","q","r","s","t","u","v","w","x","y","z">> IN
    IF \E i \in DOMAIN Upper : Upper[i] = c
    THEN Lower[CHOOSE i \in DOMAIN Upper : Upper[i] = c]
    ELSE c

toLowerCase(s) == [i \in 1..Len(s) |-> toLowerCaseChar(s[i])]

includes(s, sub) ==
    \E i \in 0..(Len(s) - Len(sub)) : SubSeq(s, i + 1, i + Len(sub)) = sub

Series == <<"S","e","r","i","e","s">>

----------------------------------------------------------------------------
(* Inputs.                                                                 *)

NoType == "undefined"

Titles == { <<"U","p">>, <<"U","P">>, <<"I","t">> }
Hints == { NoType, "movie", "series" }
ToolHints == { NoType, "movie", "episode" }
ImdbIds == { "tt1", "tt2" }

(* Payloads fetchJson can hand back after validating them against          *)
(* omdbMovieSchema: every field but Response is optional.                  *)
MovieNotFound ==
    [Response |-> "False",
     Error |-> <<"M","o","v","i","e"," ","n","o","t"," ","f","o","u","n","d","!">>]
SeriesNotFound ==
    [Response |-> "False",
     Error |-> <<"S","e","r","i","e","s"," ","n","o","t"," ","f","o","u","n","d","!">>]
FullRecord ==
    [Response |-> "True", Title |-> "Up", Year |-> "2009", Rated |-> "PG",
     Released |-> "29 May 2009", Runtime |-> "96 min", Genre |-> "Animation",
     Director |-> "Pete Docter", Writer |-> "Bob Peterson",
     Actors |-> "Ed Asner", Plot |-> "A balloon trip.", Language |-> "English",
     Country |-> "USA", Awards |-> "2 Oscars", Poster |-> "https://img/up.jpg",
     Metascore |-> "88", imdbRating |-> "8.3", imdbVotes |-> "1,100,000",
     imdbID |-> "tt1", Type |-> "movie"]
BareRecord == [Response |-> "True", Poster |-> "N/A"]


(* How an awaited fetchJson settles: it resolves with a validated payload  *)
(* or rejects (the transport failed, or the payload broke the schema).     *)
Resolved(d) == [ok |-> TRUE, data |-> d]
Rejected(e) == [ok |-> FALSE, error |-> e]

FetchOutcomes ==
    { Resolved(d) : d \in { MovieNotFound, SeriesNotFound, [Response |-> "False"],
                            FullRecord, BareRecord } }
    \cup { Rejected(e) : e \in {"transport", "schema"} }

(* The outcomes the multi-call specifications draw from: a full and a bare *)
(* record, both not-found texts, and a transport failure.                  *)
Outcomes ==
    { Resolved(d) : d \in { FullRecord, BareRecord } \cup {MovieNotFound, SeriesNotFound} }
    \cup { Rejected("transport") }

----------------------------------------------------------------------------
(* Values a call can end with.                                             *)

Pending == [tag |-> "pending"]
Null == [tag |-> "null"]
Item(i) == [tag |-> "item", item |-> i]
Summary(s) == [tag |-> "summary", summary |-> s]
Thrown(m) == [tag |-> "throw", message |-> m]

ApiKeyMessage ==
    <<"O","M","D","B"," ","A","P","I"," ","k","e","y"," ","i","s"," ",
      "n","o","t"," ","c","o","n","f","i","g","u","r","e","d">>

field(data, f, default) == IF f \in DOMAIN data THEN data[f] ELSE default

normalize(data) ==
    [title |-> field(data, "Title", "Unknown"),
     year |-> field(data, "Year", "Unknown"),
     rating |-> field(data, "imdbRating", "N/A"),
     votes |-> field(data, "imdbVotes", "N/A"),
     metascore |-> field(data, "Metascore", "N/A"),
     released |-> field(data, "Released", "Unknown"),
     genre |-> field(data, "Genre", "Unknown"),
     director |-> field(data, "Director", "Unknown"),
     writer |-> field(data, "Writer", "Unknown"),
     actors |-> field(data, "Actors", "Unknown"),
     plot |-> field(data, "Plot", "No plot available."),
     posterUrl |-> IF field(data, "Poster", "") \notin {"", "N/A"}
                   THEN data.Poster ELSE "",
     country |-> field(data, "Country", "Unknown"),
     language |-> field(data, "Language", "Unknown"),
     type |-> field(data, "Type", "movie")]

----------------------------------------------------------------------------
(* The memo: a Map from key strings to normalized records.  A key is kept  *)
(* as the tuple of the parts the template string joins with ":".           *)

EmptyMap == [k \in {} |-> k]
has(m, k) == k \in DOMAIN m
set(m, k, v) == [x \in (DOMAIN m) \cup {k} |-> IF x = k THEN v ELSE m[x]]

titleCacheKey(title, type) ==
    <<"title", IF type = NoType THEN "auto" ELSE type, toLowerCase(title)>>

idCacheKey(imdbId) == <<"id", imdbId>>

(* The query string of each request.                                       *)
titleRequest(title, type) ==
    IF type = NoType
    THEN [apikey |-> omdbApiKey, t |-> title, plot |-> "full"]
    ELSE [apikey |-> omdbApiKey, t |-> title, plot |-> "full", type |-> type]

summaryRequest(title) == [apikey |-> omdbApiKey, t |-> title]

idRequest(imdbId) == [apikey |-> omdbApiKey, i |-> imdbId, plot |-> "full"]

validateApiKey == omdbApiKey # ""

----------------------------------------------------------------------------
(* Calls.  A call record holds the arguments, the position of the async    *)
(* method ("fetch": suspended on an awaited fetchJson; "done": returned),  *)
(* the requests it has issued, how each of them settled, and what the      *)
(* call returned or threw.                                                 *)

NoOutput == [kind |-> "none"]

newCall(op, s, arg, type, tool) ==
    [op |-> op, svc |-> s, arg |-> arg, type |-> type, curType |-> type,
     pc |-> "run", reqs |-> <<>>, resps |-> <<>>, result |-> Pending,
     startT |-> now + 1, endT |-> 0, tool |-> tool, out |-> NoOutput]

returns(call, value) == [call EXCEPT !.pc = "done", !.result = value]
settles(call, o) == [call EXCEPT !.resps = Append(@, o)]
awaitsFetch(call, request) ==
    [call EXCEPT !.pc = "fetch", !.reqs = Append(@, request)]

(* altType as it would be if the retry dropped its type argument.          *)
altTypeUntyped(data) == NoType

(* The type the retry of an untyped title lookup carries.                  *)
altType(data) ==
    IF "Error" \in DOMAIN data /\ includes(data.Error, Series)
    THEN "series" ELSE "movie"

(* getByTitleEnter without the look into the Map.                          *)
getByTitleEnterNoMemo(call, m) ==
    IF ~validateApiKey THEN returns(call, Thrown(ApiKeyMessage))
    ELSE awaitsFetch(call, titleRequest(call.arg, call.curType))

(* getByTitle from its entry to its first await or return, for the type    *)
(* in call.curType and the Map m of the instance.                          *)
getByTitleEnter(call, m) ==
    IF ~validateApiKey THEN returns(call, Thrown(ApiKeyMessage))
    ELSE LET cacheKey == titleCacheKey(call.arg, call.curType) IN
         IF has(m, cacheKey) THEN returns(call, Item(m[cacheKey]))
         ELSE awaitsFetch(call, titleRequest(call.arg, call.curType))

(* getByTitleSettled without the try/catch around the fetch.               *)
getByTitleSettledNoCatch(call, m, o) ==
    IF ~o.ok THEN <<returns(call, Thrown(<<"f","e","t","c","h">>)), m>>
    ELSE IF o.data.Response = "False"
    THEN IF call.curType = NoType
         THEN <<getByTitleEnter([call EXCEPT !.curType = altType(o.data)], m), m>>
         ELSE <<returns(call, Null), m>>
    ELSE LET item == normalize(o.data) IN
         <<returns(call, Item(item)),
           set(m, titleCacheKey(call.arg, call.curType), item)>>

(* getByTitleSettled as it would be if the record of a retry were stored   *)
(* under the key of the call's own type.                                   *)
getByTitleSettledOwnKey(call, m, o) ==
    IF ~o.ok THEN <<returns(call, Null), m>>
    ELSE IF o.data.Response = "False"
    THEN IF call.curType = NoType
         THEN <<getByTitleEnter([call EXCEPT !.curType = altType(o.data)], m), m>>
         ELSE <<returns(call, Null), m>>
    ELSE LET item == normalize(o.data) IN
         <<returns(call, Item(item)),
           set(m, titleCacheKey(call.arg, call.type), item)>>

(* getByTitle from the settling of its fetch: <<call, Map>> afterwards.    *)
getByTitleSettled(call, m, o) ==
    IF ~o.ok THEN <<returns(call, Null), m>>
    ELSE IF o.data.Response = "False"
    THEN IF call.curType = NoType
         THEN <<getByTitleEnter([call EXCEPT !.curType = altType(o.data)], m), m>>
         ELSE <<returns(call, Null), m>>
    ELSE LET item == normalize(o.data) IN
         <<returns(call, Item(item)),
           set(m, titleCacheKey(call.arg, call.curType), item)>>

(* getImdbSummaryEnter as it would be if it looked into the Map first.     *)
getImdbSummaryEnterMemo(call) ==
    IF ~validateApiKey THEN returns(call, Thrown(ApiKeyMessage))
    ELSE LET m == cache[call.svc]
             cacheKey == titleCacheKey(call.arg, NoType) IN
         IF has(m, cacheKey)
         THEN returns(call, Summary([imdbRating |-> m[cacheKey].rating,
                                     imdbVotes |-> m[cacheKey].votes]))
         ELSE awaitsFetch(call, summaryRequest(call.arg))

getImdbSummaryEnter(call) ==
    IF ~validateApiKey THEN returns(call, Thrown(ApiKeyMessage))
    ELSE awaitsFetch(call, summaryRequest(call.arg))


getImdbSummarySettled(call, o) ==
    IF ~o.ok \/ o.data.Response = "False"
    THEN returns(call, Summary([imdbRating |-> "N/A", imdbVotes |-> "N/A"]))
    ELSE returns(call, Summary([imdbRating |-> field(o.data, "imdbRating", "N/A"),
                                imdbVotes |-> field(o.data, "imdbVotes", "N/A")]))

getByImdbIdEnter(call, m) ==
    IF ~validateApiKey THEN returns(call, Thrown(ApiKeyMessage))
    ELSE LET cacheKey == idCacheKey(call.arg) IN
         IF has(m, cacheKey) THEN returns(call, Item(m[cacheKey]))
         ELSE awaitsFetch(call, idRequest(call.arg))

(* getByImdbIdSettled without the cache.set.                               *)
getByImdbIdSettledNoStore(call, m, o) ==
    IF ~o.ok THEN <<returns(call, Null), m>>
    ELSE IF o.data.Response = "False" THEN <<returns(call, Null), m>>
    ELSE <<returns(call, Item(normalize(o.data))), m>>

(* getByImdbIdSettled as it would be if a not-found answer dropped the     *)
(* entry of the id.                                                        *)
getByImdbIdSettledEvicting(call, m, o) ==
    IF ~o.ok THEN <<returns(call, Null), m>>
    ELSE IF o.data.Response = "False"
    THEN <<returns(call, Null),
           [x \in (DOMAIN m) \ {idCacheKey(call.arg)} |-> m[x]]>>
    ELSE LET item == normalize(o.data) IN
         <<returns(call, Item(item)), set(m, idCacheKey(call.arg), item)>>

getByImdbIdSettled(call, m, o) ==
    IF ~o.ok THEN <<returns(call, Null), m>>
    ELSE IF o.data.Response = "False" THEN <<returns(call, Null), m>>
    ELSE LET item == normalize(o.data) IN
         <<returns(call, Item(item)), set(m, idCacheKey(call.arg), item)>>

----------------------------------------------------------------------------
(* GET_OMDB_INFO: what execute returns for what getByTitle gave it.        *)

ApiKeyWords == <<"A","P","I"," ","k","e","y">>

omdbDetailsOutput(call) ==
    LET r == call.result IN
    IF r.tag = "throw"
    THEN IF includes(r.message, ApiKeyWords)
         THEN [kind |-> "apiKeyNotConfigured"]
         ELSE [kind |-> "errorFetching", message |-> r.message]
    ELSE IF r.tag = "null"
    THEN [kind |-> "notFound",
          what |-> IF call.type = NoType THEN "content" ELSE call.type,
          query |-> call.arg]
    ELSE [kind |-> "details", title |-> r.item.title, year |-> r.item.year,
          rating |-> r.item.rating, votes |-> r.item.votes,
          metascore |-> r.item.metascore, released |-> r.item.released,
          genre |-> r.item.genre, director |-> r.item.director,
          actors |-> r.item.actors, plot |-> r.item.plot,
          poster |-> IF r.item.posterUrl = "" THEN "N/A" ELSE r.item.posterUrl]

(* A call that has just run: stamped when it returned, and, when a tool    *)
(* handler awaited it, the handler's return value.                         *)
finished(call, t) ==
    IF call.pc # "done" THEN call
    ELSE [call EXCEPT !.endT = t,
                      !.out = IF call.tool = "GET_OMDB_INFO"
                              THEN omdbDetailsOutput(call) ELSE NoOutput]

tick(call) == IF call.pc = "done" THEN 1 ELSE 0

----------------------------------------------------------------------------
(* TmdbService.  Values of the provider's payloads and of the items built  *)
(* from them: a JavaScript value is a tagged record, so that undefined,    *)
(* null, a string and an object stay distinct.                             *)

Undefined == [tag |-> "undefined"]
Str(s) == [tag |-> "string", value |-> s]
Obj == [tag |-> "object"]
Num(n) == [tag |-> "number", value |-> n]
NaN == [tag |-> "NaN"]

(* obj.f, and x ?? d                                                       *)
prop(obj, f) == IF f \in DOMAIN obj THEN obj[f] ELSE Undefined
nullish(x, d) == IF x = Null \/ x = Undefined THEN d ELSE x
truthy(v) ==
    /\ v.tag \notin {"null", "undefined", "NaN"}
    /\ v.tag = "string" => v.value # ""
    /\ v.tag = "number" => v.value # 0

TmdbKeyMessage ==
    <<"T","M","D","B"," ","A","P","I"," ","k","e","y"," ","i","s"," ",
      "n","o","t"," ","c","o","n","f","i","g","u","r","e","d">>

(* What a rejected fetchJson throws: an Error (the request failed, or the  *)
(* payload did not match the schema), or a value that is not an Error.     *)
FetchErrors == { "transport", "schema", "nonError" }
ThrownValue == [tag |-> "throwValue"]
FetchFailed == <<"f","e","t","c","h"," ","f","a","i","l","e","d">>
Invalid == <<"i","n","v","a","l","i","d"," ","p","a","y","l","o","a","d">>
(* What the rejection throws into the caller; when the provider refuses    *)
(* the key it was sent the message of the Error is the provider's text.    *)
thrownBy(o) ==
    IF o.error = "nonError" THEN ThrownValue
    ELSE IF o.error = "schema" THEN Thrown(Invalid)
    ELSE IF o.error = "unauthorized"
    THEN Thrown(<<"I","n","v","a","l","i","d"," ","A","P","I"," ","k","e","y">>)
    ELSE Thrown(FetchFailed)

Items(list) == [tag |-> "items", items |-> list]
Genres(list) == [tag |-> "genres", genres |-> list]
People(list) == [tag |-> "people", people |-> list]
Collections(list) == [tag |-> "collections", collections |-> list]
Collection(c) == [tag |-> "collection", collection |-> c]

(* The per-record fetches of an enrichment.                                *)
Unissued == [st |-> "unissued"]
InFlight == [st |-> "pending"]
NotFetched == [st |-> "skipped"]
Settled(o) == [st |-> "settled", outcome |-> o]

ItemOps ==
    { "getMovieByTitle", "getTvShowByTitle", "getTrending", "getPopular",
      "discoverByActor", "discoverByGenre" }

IdleRun ==
    [op |-> "none", mediaType |-> "none", pc |-> "idle", base |-> <<>>,
     primary |-> Unissued, details |-> <<>>, providers |-> <<>>,
     result |-> Pending, overtaken |-> FALSE]

NoTool == [name |-> "none", pc |-> "idle"]

(* The requests, by the path of their URL.                                 *)
primaryRequest(op, mediaType, id) ==
    [kind |-> "primary", id |-> id,
     path |-> CASE op = "getMovieByTitle" -> <<"search", "movie">>
                [] op = "getTvShowByTitle" -> <<"search", "tv">>
                [] op = "getTrending" -> <<"trending", mediaType>>
                [] op = "getPopular" -> <<mediaType, "popular">>
                [] op = "getGenres" -> <<"genre", mediaType, "list">>
                [] op = "searchPerson" -> <<"search", "person">>
                [] op = "searchCollections" -> <<"search", "collection">>
                [] op = "getCollectionDetails" -> <<"collection">>
                [] OTHER -> <<"discover", mediaType>>]
detailRequest(kind, id) == [kind |-> "detail", id |-> id, path |-> <<kind>>]
providersRequest(kind, id) ==
    [kind |-> "providers", id |-> id, path |-> <<kind, "watch", "providers">>]

(* Which detail endpoint the first batch asks for a base record ("none":   *)
(* the record gets no detail fetch), and under which media type the second *)
(* batch asks for its watch providers.                                     *)
detailKind(op, mediaType, rec) ==
    CASE op = "getMovieByTitle" -> "movie"
      [] op = "getTvShowByTitle" -> "tv"
      [] op = "getTrending" ->
            IF rec.media_type \in {"movie", "tv"} THEN rec.media_type ELSE "none"
      [] OTHER -> IF mediaType = "movie" THEN "movie" ELSE "tv"

(* typeOf as it would be if getTrending copied the record's media_type.    *)
typeOfMediaType(op, mediaType, rec) ==
    CASE op = "getMovieByTitle" -> "movie"
      [] op = "getTvShowByTitle" -> "tv"
      [] op = "getTrending" -> rec.media_type
      [] OTHER -> mediaType

typeOf(op, mediaType, rec) ==
    CASE op = "getMovieByTitle" -> "movie"
      [] op = "getTvShowByTitle" -> "tv"
      [] op = "getTrending" -> IF rec.media_type = "movie" THEN "movie" ELSE "tv"
      [] OTHER -> mediaType

(* The imdb_id the first batch attaches to a base record.                  *)
imdbIdOf(kind, status) ==
    IF kind = "none" THEN Undefined
    ELSE IF kind = "movie" THEN prop(status.outcome.data, "imdb_id")
    ELSE LET external_ids == prop(status.outcome.data, "external_ids") IN
         IF external_ids = Null \/ external_ids = Undefined THEN Undefined
         ELSE prop(external_ids, "imdb_id")

(* getWatchProviders without the try/catch around its fetch.               *)
getWatchProvidersSettledNoCatch(o) ==
    IF ~o.ok THEN thrownBy(o) ELSE prop(o.data, "results")

(* getWatchProviders from the settling of its fetch.                       *)
getWatchProvidersSettled(o) ==
    IF ~o.ok THEN Undefined ELSE prop(o.data, "results")

(* `https://image.tmdb.org/t/p/w500${path}` whatever the path is.          *)
imageUrlAlways(path) ==
    IF path.tag = "string"
    THEN Str("https://image.tmdb.org/t/p/w500" \o path.value)
    ELSE Str("https://image.tmdb.org/t/p/w500")

(* path ? `https://image.tmdb.org/t/p/w500${path}` : ""                    *)
imageUrl(path) ==
    IF truthy(path)
    THEN Str("https://image.tmdb.org/t/p/w500" \o path.value)
    ELSE Str("")

(* The title of an item: the movie field, the tv field, or the chain of    *)
(* both, as the operation has it.                                          *)
titleOf(op, mediaType, rec) ==
    CASE op = "getMovieByTitle" -> prop(rec, "title")
      [] op = "getTvShowByTitle" -> prop(rec, "name")
      [] op = "getTrending" ->
            nullish(prop(rec, "title"), nullish(prop(rec, "name"), Str("Unknown")))
      [] op = "discoverByGenre" ->
            IF mediaType = "movie" THEN prop(rec, "title")
            ELSE nullish(prop(rec, "name"), Str("Unknown"))
      [] OTHER ->
            nullish(IF mediaType = "movie" THEN prop(rec, "title")
                    ELSE prop(rec, "name"), Str("Unknown"))

(* releaseDateOf as it would be if discoverByGenre had the parentheses of  *)
(* discoverByActor.                                                        *)
releaseDateOfUnknown(op, mediaType, rec) ==
    CASE op = "getMovieByTitle" -> nullish(prop(rec, "release_date"), Str("Unknown"))
      [] op = "getTvShowByTitle" ->
            nullish(prop(rec, "first_air_date"), Str("Unknown"))
      [] op = "getTrending" ->
            nullish(prop(rec, "release_date"),
                    nullish(prop(rec, "first_air_date"), Str("Unknown")))
      [] OTHER ->
            nullish(IF mediaType = "movie" THEN prop(rec, "release_date")
                    ELSE prop(rec, "first_air_date"), Str("Unknown"))

(* The releaseDate of an item.  In discoverByGenre the ?? binds to the tv  *)
(* branch of the conditional only.                                         *)
releaseDateOf(op, mediaType, rec) ==
    CASE op = "getMovieByTitle" -> nullish(prop(rec, "release_date"), Str("Unknown"))
      [] op = "getTvShowByTitle" ->
            nullish(prop(rec, "first_air_date"), Str("Unknown"))
      [] op = "getTrending" ->
            nullish(prop(rec, "release_date"),
                    nullish(prop(rec, "first_air_date"), Str("Unknown")))
      [] op = "discoverByGenre" ->
            IF mediaType = "movie" THEN prop(rec, "release_date")
            ELSE nullish(prop(rec, "first_air_date"), Str("Unknown"))
      [] OTHER ->
            nullish(IF mediaType = "movie" THEN prop(rec, "release_date")
                    ELSE prop(rec, "first_air_date"), Str("Unknown"))

(* item.vote_average as it is.                                             *)
ratingOfRaw(rec) == prop(rec, "vote_average")

(* item.vote_average ?? 0                                                  *)
ratingOf(rec) == nullish(prop(rec, "vote_average"), Num(0))

(* The item built for the i-th base record once both batches are joined;   *)
(* discoverByGenre builds its items after the first batch and gives them   *)
(* no watchProviders property.                                             *)
itemOf(r, i) ==
    LET rec == r.base[i]
        imdb_id == imdbIdOf(detailKind(r.op, r.mediaType, rec), r.details[i])
        core == [id |-> rec.id, imdbId |-> nullish(imdb_id, Null),
                 title |-> titleOf(r.op, r.mediaType, rec),
                 description |-> nullish(prop(rec, "overview"),
                                         Str("No description available.")),
                 releaseDate |-> releaseDateOf(r.op, r.mediaType, rec),
                 rating |-> ratingOf(rec),
                 posterUrl |-> imageUrl(prop(rec, "poster_path")),
                 language |-> nullish(prop(rec, "original_language"), Str("Unknown")),
                 type |-> typeOf(r.op, r.mediaType, rec)] IN
    IF r.op = "discoverByGenre" THEN core
    ELSE core @@
         ("watchProviders" :> getWatchProvidersSettled(r.providers[i].outcome))

(* itemsOf as it would be if each item were put in front of the list.      *)
itemsOfUnshift(r) ==
    [i \in DOMAIN r.base |-> itemOf(r, Len(r.base) + 1 - i)]

itemsOf(r) == [i \in DOMAIN r.base |-> itemOf(r, i)]

tmdbReturns(r, value) == [r EXCEPT !.pc = "done", !.result = value]

(* tmdbEnter without the check of the key.                                 *)
tmdbEnterNoKeyCheck(op, mediaType, id, reqs) ==
    LET r == [IdleRun EXCEPT !.op = op, !.mediaType = mediaType] IN
    <<[r EXCEPT !.pc = "primary", !.primary = InFlight],
      Append(reqs, primaryRequest(op, mediaType, id))>>

(* An operation from its entry to its first await or throw:                *)
(* <<run, requests>> afterwards.                                           *)
tmdbEnter(op, mediaType, id, reqs) ==
    LET r == [IdleRun EXCEPT !.op = op, !.mediaType = mediaType] IN
    IF tmdbApiKey = "" THEN <<tmdbReturns(r, Thrown(TmdbKeyMessage)), reqs>>
    ELSE <<[r EXCEPT !.pc = "primary", !.primary = InFlight],
           Append(reqs, primaryRequest(op, mediaType, id))>>

(* person.known_for.map((item) => item.title ?? item.name).filter(Boolean), *)
(* kept as the list of the names that join(", ") puts together.            *)
knownForOf(known_for) ==
    SelectSeq([i \in DOMAIN known_for |->
                  nullish(prop(known_for[i], "title"), prop(known_for[i], "name"))],
              truthy)

personOf(p) ==
    [id |-> p.id, name |-> p.name, popularity |-> prop(p, "popularity"),
     knownForDepartment |-> nullish(prop(p, "known_for_department"), Str("Unknown")),
     profilePath |-> imageUrl(prop(p, "profile_path")),
     knownFor |-> IF "known_for" \in DOMAIN p THEN knownForOf(p.known_for)
                  ELSE Str("N/A")]

(* A part of a collection.                                                 *)
partOf(movie) ==
    [id |-> movie.id, title |-> prop(movie, "title"),
     releaseDate |-> nullish(prop(movie, "release_date"), Str("Unknown")),
     posterUrl |-> imageUrl(prop(movie, "poster_path")),
     description |-> nullish(prop(movie, "overview"),
                             Str("No description available.")),
     rating |-> ratingOf(movie)]

(* A collection of a search (no parts) or of getCollectionDetails.         *)
collectionOf(c) ==
    [id |-> c.id, name |-> c.name,
     overview |-> nullish(prop(c, "overview"), Str("No overview available.")),
     posterUrl |-> imageUrl(prop(c, "poster_path")),
     backdropUrl |-> imageUrl(prop(c, "backdrop_path")),
     parts |-> IF "parts" \in DOMAIN c
               THEN [i \in DOMAIN c.parts |-> partOf(c.parts[i])] ELSE <<>>]

issued(reqs) == SelectSeq(reqs, LAMBDA q : q.kind # "skip")

(* The second batch as it would be if discoverByGenre were not told apart. *)
withWatchProvidersAlways(r, reqs) ==
    IF r.base = <<>> THEN <<tmdbReturns(r, Items(<<>>)), reqs>>
    ELSE <<[r EXCEPT !.pc = "providers",
                     !.providers = [i \in DOMAIN r.base |-> InFlight]],
           reqs \o [i \in DOMAIN r.base |->
                       providersRequest(typeOf(r.op, r.mediaType, r.base[i]),
                                        r.base[i].id)]>>

(* The first batch is joined: discoverByGenre returns its items; the       *)
(* other operations issue the second batch, one getWatchProviders per      *)
(* record, all of them before any can settle.                              *)
withWatchProviders(r, reqs) ==
    IF r.op = "discoverByGenre" THEN <<tmdbReturns(r, Items(itemsOf(r))), reqs>>
    ELSE IF r.base = <<>> THEN <<tmdbReturns(r, Items(<<>>)), reqs>>
    ELSE <<[r EXCEPT !.pc = "providers",
                     !.providers = [i \in DOMAIN r.base |-> InFlight]],
           reqs \o [i \in DOMAIN r.base |->
                       providersRequest(typeOf(r.op, r.mediaType, r.base[i]),
                                        r.base[i].id)]>>

(* withImdbId as it would be if both batches were issued together.         *)
withImdbIdOneBatch(r, reqs, base) ==
    LET kind(i) == detailKind(r.op, r.mediaType, base[i])
        r1 == [r EXCEPT !.pc = "details", !.base = base,
                        !.details = [i \in DOMAIN base |->
                            IF kind(i) = "none" THEN NotFetched ELSE InFlight],
                        !.providers = [i \in DOMAIN base |-> InFlight]] IN
    IF base = <<>> THEN <<tmdbReturns(r1, Items(<<>>)), reqs>> ELSE <<r1, reqs>>

(* The first batch: one detail fetch per record that has a detail          *)
(* endpoint, all of them issued before any can settle.                     *)
withImdbId(r, reqs, base) ==
    LET kind(i) == detailKind(r.op, r.mediaType, base[i])
        details == [i \in DOMAIN base |->
                       IF kind(i) = "none" THEN NotFetched ELSE InFlight]
        r1 == [r EXCEPT !.pc = "details", !.base = base, !.details = details,
                        !.providers = [i \in DOMAIN base |-> Unissued]]
        reqs1 == reqs \o issued([i \in DOMAIN base |->
                     IF kind(i) = "none" THEN [kind |-> "skip", id |-> 0, path |-> <<>>]
                     ELSE detailRequest(kind(i), base[i].id)]) IN
    IF \E i \in DOMAIN base : details[i] = InFlight THEN <<r1, reqs1>>
    ELSE withWatchProviders(r1, reqs1)

(* tmdbPrimarySettled without the try/catch of getCollectionDetails.       *)
tmdbPrimarySettledNoCatch(r0, reqs, o) ==
    LET r == [r0 EXCEPT !.primary = Settled(o)] IN
    IF ~o.ok
    THEN <<tmdbReturns(r, thrownBy(o)), reqs>>
    ELSE CASE r.op = "getGenres" -> <<tmdbReturns(r, Genres(o.data.genres)), reqs>>
           [] r.op = "searchPerson" ->
                <<tmdbReturns(r, People([i \in DOMAIN o.data.results |->
                                            personOf(o.data.results[i])])), reqs>>
           [] r.op = "searchCollections" ->
                <<tmdbReturns(r, Collections([i \in DOMAIN o.data.results |->
                                     collectionOf(o.data.results[i])])), reqs>>
           [] r.op = "getCollectionDetails" ->
                <<tmdbReturns(r, Collection(collectionOf(o.data))), reqs>>
           [] OTHER -> withImdbId(r, reqs, o.data.results)

(* An operation from the settling of its primary fetch.                    *)
tmdbPrimarySettled(r0, reqs, o) ==
    LET r == [r0 EXCEPT !.primary = Settled(o)] IN
    IF ~o.ok
    THEN IF r.op = "getCollectionDetails" THEN <<tmdbReturns(r, Null), reqs>>
         ELSE <<tmdbReturns(r, thrownBy(o)), reqs>>
    ELSE CASE r.op = "getGenres" -> <<tmdbReturns(r, Genres(o.data.genres)), reqs>>
           [] r.op = "searchPerson" ->
                <<tmdbReturns(r, People([i \in DOMAIN o.data.results |->
                                            personOf(o.data.results[i])])), reqs>>
           [] r.op = "searchCollections" ->
                <<tmdbReturns(r, Collections([i \in DOMAIN o.data.results |->
                                     collectionOf(o.data.results[i])])), reqs>>
           [] r.op = "getCollectionDetails" ->
                <<tmdbReturns(r, Collection(collectionOf(o.data))), reqs>>
           [] OTHER -> withImdbId(r, reqs, o.data.results)

(* The detail callback with a catch that leaves imdb_id undefined.         *)
tmdbDetailSettledCaught(r, reqs, i, o) ==
    LET r1 == [r EXCEPT !.details[i] =
                  Settled(IF o.ok THEN o
                          ELSE [ok |-> FALSE, error |-> o.error, data |-> Obj])] IN
    IF r.pc = "done" THEN <<r1, reqs>>
    ELSE IF \E j \in DOMAIN r1.details : r1.details[j] = InFlight THEN <<r1, reqs>>
    ELSE withWatchProviders(r1, reqs)

(* The detail fetch of the i-th record settles.  A rejection rejects the   *)
(* Promise.all and with it the operation; the other detail fetches stay in *)
(* flight and settle with no one awaiting them.                            *)
tmdbDetailSettled(r, reqs, i, o) ==
    LET r1 == [r EXCEPT !.details[i] = Settled(o)] IN
    IF r.pc = "done" THEN <<r1, reqs>>
    ELSE IF ~o.ok THEN <<tmdbReturns(r1, thrownBy(o)), reqs>>
    ELSE IF \E j \in DOMAIN r1.details : r1.details[j] = InFlight THEN <<r1, reqs>>
    ELSE withWatchProviders(r1, reqs)

(* The second batch as it would be if it returned at the first settling.   *)
tmdbProvidersSettledEager(r, i, o) ==
    LET r1 == [r EXCEPT !.providers[i] = Settled(o)] IN
    IF r.pc = "done" THEN r1
    ELSE tmdbReturns(r1, Items(SelectSeq(
             [j \in DOMAIN r1.base |->
                 IF r1.providers[j] = InFlight THEN [id |-> 0]
                 ELSE itemOf(r1, j)], LAMBDA x : x.id # 0)))

(* The watch-provider fetch of the i-th record settles.                    *)
tmdbProvidersSettled(r, i, o) ==
    LET r1 == [r EXCEPT !.providers[i] = Settled(o)]
        watchProviders == getWatchProvidersSettled(o) IN
    IF r.pc = "done" THEN r1
    ELSE IF watchProviders.tag \in {"throw", "throwValue"}
    THEN tmdbReturns(r1, watchProviders)
    ELSE IF \E j \in DOMAIN r1.providers : r1.providers[j] = InFlight THEN r1
    ELSE tmdbReturns(r1, Items(itemsOf(r1)))

----------------------------------------------------------------------------
(* What the provider can answer.                                           *)


IdLists ==
    { s \in UNION { [1..n -> (11 .. (10 + MaxResults))] : n \in 0..MaxResults } :
        \A i, j \in DOMAIN s : i # j => s[i] # s[j] }

ResultLists(op) ==
    IF op = "getTrending"
    THEN UNION { { [i \in DOMAIN s |-> [id |-> s[i], media_type |-> k[i]]] :
                     k \in [DOMAIN s -> { "movie", "tv", "person" }] } : s \in IdLists }
    ELSE { [i \in DOMAIN s |-> [id |-> s[i]]] : s \in IdLists }

DetailPayloads(kind) ==
    IF kind = "movie"
    THEN { [tag |-> "object", imdb_id |-> Str("tt1")],
           [tag |-> "object", imdb_id |-> Null], Obj }
    ELSE { [tag |-> "object",
            external_ids |-> [tag |-> "object", imdb_id |-> Str("tt2")]],
           [tag |-> "object", external_ids |-> Null], Obj }

(* The offers of one region; the region code IN is the one GET_TMDB_INFO   *)
(* prints.                                                                 *)
Netflix ==
    [tag |-> "object"] @@ ("IN" :> [tag |-> "object", flatrate |-> <<"Netflix">>])
ProvidersPayloads == { [tag |-> "object", results |-> Netflix], Obj }

(* Base records as the schemas admit them: every nullable field with a     *)
(* value or null, the poster path also empty, and in the trending list the *)
(* optional fields of a record's kind present or absent.                   *)
opt(f, v) == IF v = Undefined THEN EmptyMap ELSE (f :> v)

Overviews == { Str("A balloon trip."), Null }
Paths == { Str("/up.jpg"), Str(""), Null }
Dates == { Str("2009-05-29"), Null }

CommonFields(id) ==
    { [id |-> id, overview |-> o, vote_average |-> v, poster_path |-> p,
       original_language |-> l] :
        o \in Overviews, v \in { Num(83), Null }, p \in Paths,
        l \in { Str("en"), Null } }

MovieRecords ==
    { c @@ [title |-> Str("Up"), release_date |-> d] :
        c \in CommonFields(11), d \in Dates }

TvRecords ==
    { c @@ [name |-> Str("Lost"), first_air_date |-> d] :
        c \in CommonFields(12), d \in Dates }

TrendingRecords ==
    { c @@ opt("title", t) @@ opt("release_date", d) @@ [media_type |-> "movie"] :
        c \in CommonFields(11), t \in {Str("Up"), Undefined},
        d \in Dates \cup {Undefined} }
    \cup
    { c @@ opt("name", n) @@ opt("first_air_date", d) @@ [media_type |-> "tv"] :
        c \in CommonFields(12), n \in {Str("Lost"), Undefined},
        d \in Dates \cup {Undefined} }
    \cup
    { c @@ opt("name", n) @@ [media_type |-> "person"] :
        c \in CommonFields(31), n \in {Str("Ed Asner"), Undefined} }

TrendingPairs ==
    LET person == CHOOSE r \in TrendingRecords :
                      r.media_type = "person" /\ "name" \in DOMAIN r
        movie == CHOOSE r \in TrendingRecords :
                      r.media_type = "movie" /\ "title" \in DOMAIN r IN
    { <<person, movie>>, <<movie, person>> }

PersonRecords ==
    { [id |-> 31, name |-> "Ed Asner", popularity |-> Num(12), profile_path |-> p]
      @@ opt("known_for_department", d) @@ k :
        p \in Paths, d \in {Str("Acting"), Undefined},
        k \in { EmptyMap,
                [known_for |-> << [id |-> 11, title |-> Str("Up"), media_type |-> "movie"],
                                  [id |-> 12, name |-> Str("Lost"), media_type |-> "tv"],
                                  [id |-> 13, media_type |-> "movie"] >>] } }

CollectionRecords ==
    { [id |-> 10, name |-> "Up Collection", overview |-> o, poster_path |-> p,
       backdrop_path |-> b] : o \in Overviews, p \in Paths, b \in Paths }

PartRecords ==
    { [id |-> 11, title |-> Str("Up"), release_date |-> d, poster_path |-> p,
       backdrop_path |-> Null, overview |-> o, vote_average |-> v] :
        d \in Dates, p \in Paths, o \in Overviews, v \in { Num(83), Null } }

(* Discovered movies for the suggestions: a list one longer than the tool  *)
(* prints, each movie with an imdb_id of its own, and a list with a movie  *)
(* that has none.                                                          *)
imdbIdFor(id) == "tt" \o ToString(id)
IdPayloads(id) ==
    IF id \in (21 .. (20 + MaxDiscovered))
    THEN { [tag |-> "object", imdb_id |-> Str(imdbIdFor(id))] }
    ELSE { Obj }
DiscoveredLists ==
    { [i \in 1..MaxDiscovered |-> [id |-> 20 + i]],
      <<[id |-> 21], [id |-> 20], [id |-> 22]>> }

NormalPayloads(op, mediaType) ==
    CASE op \in {"getMovieByTitle"} -> { [results |-> <<r>>] : r \in MovieRecords }
      [] op = "getTvShowByTitle" -> { [results |-> <<r>>] : r \in TvRecords }
      [] op = "getTrending" ->
            { [results |-> <<r>>] : r \in TrendingRecords }
            \cup { [results |-> l] : l \in TrendingPairs }
      [] op \in {"getPopular", "discoverByActor", "discoverByGenre"} ->
            { [results |-> <<r>>] :
                r \in IF mediaType = "movie" THEN MovieRecords ELSE TvRecords }
      [] op = "searchPerson" -> { [results |-> <<r>>] : r \in PersonRecords }
      [] op = "searchCollections" ->
            { [results |-> <<r>>] : r \in CollectionRecords }
      [] op = "getCollectionDetails" ->
            { c @@ [parts |-> <<>>] : c \in CollectionRecords }
            \cup { [id |-> 10, name |-> "Up Collection", overview |-> Null,
                    poster_path |-> Null, backdrop_path |-> Null,
                    parts |-> <<part>>] : part \in PartRecords }
      [] OTHER -> {}

----------------------------------------------------------------------------
(* Tool handlers.  Each execute constructs its own services, awaits the    *)
(* operations it needs inside one try block and returns a string; the      *)
(* string is kept as a record naming which of the handler's templates      *)
(* produced it and the values put into it.                                 *)

(* parseFloat on the rating strings that occur, in tenths.                 *)
parseFloat(s) == IF s = "8.3" THEN Num(83) ELSE NaN
gte(x, y) == x.tag = "number" /\ y.tag = "number" /\ x.value >= y.value

GenreTools == { "GET_TMDB_BY_GENRE", "GET_ENTERTAINMENT_SUGGESTIONS" }
TmdbTools ==
    { "GET_TMDB_INFO", "GET_TMDB_TRENDING", "GET_TMDB_POPULAR",
      "GET_TMDB_DISCOVER_BY_ACTOR", "GET_TMDB_SEARCH_MOVIE_BY_TITLE",
      "GET_TMDB_SEARCH_TV_BY_TITLE", "GET_TMDB_PERSON_SEARCH",
      "GET_TMDB_SEARCH_COLLECTIONS", "GET_TMDB_COLLECTION_DETAILS" }
    \cup GenreTools

NoParams ==
    [mediaType |-> "none", genre |-> <<>>, minImdbRating |-> Undefined, id |-> 0]

newHandler(name, params, s) ==
    [name |-> name, pc |-> "run", step |-> "first", svc |-> s,
     mediaType |-> params.mediaType, genre |-> params.genre,
     minImdbRating |-> params.minImdbRating, id |-> params.id,
     genres |-> <<>>, selectedGenre |-> Undefined, tmdbMovies |-> <<>>,
     idx |-> 0, suggestedMovies |-> <<>>, out |-> NoOutput]

(* The operation a handler awaits first.                                   *)
firstOp(name, params) ==
    CASE name = "GET_TMDB_INFO" ->
            IF params.mediaType = "movie" THEN "getMovieByTitle" ELSE "getTvShowByTitle"
      [] name = "GET_TMDB_TRENDING" -> "getTrending"
      [] name = "GET_TMDB_POPULAR" -> "getPopular"
      [] name = "GET_TMDB_DISCOVER_BY_ACTOR" -> "discoverByActor"
      [] name = "GET_TMDB_SEARCH_MOVIE_BY_TITLE" -> "getMovieByTitle"
      [] name = "GET_TMDB_SEARCH_TV_BY_TITLE" -> "getTvShowByTitle"
      [] name = "GET_TMDB_PERSON_SEARCH" -> "searchPerson"
      [] name = "GET_TMDB_SEARCH_COLLECTIONS" -> "searchCollections"
      [] name = "GET_TMDB_COLLECTION_DETAILS" -> "getCollectionDetails"
      [] OTHER -> "getGenres"

(* results.slice(0, n) of the handlers that cut their list.                *)
slice(list, n) == SubSeq(list, 1, IF Len(list) < n THEN Len(list) ELSE n)
(* top without the cut.                                                    *)
topUncut(name, list) == list

top(name, list) ==
    IF name = "GET_TMDB_INFO" THEN slice(list, 3)
    ELSE IF name \in {"GET_TMDB_TRENDING", "GET_TMDB_POPULAR", "GET_TMDB_BY_GENRE"}
    THEN list
    ELSE slice(list, 5)

listOf(result) ==
    CASE result.tag = "items" -> result.items
      [] result.tag = "people" -> result.people
      [] result.tag = "collections" -> result.collections

(* The catch block every handler ends with.                                *)
catchOutput(name, error) ==
    IF error.tag = "throw"
    THEN IF includes(error.message, ApiKeyWords)
         THEN [kind |-> "apiKeyNotConfigured", tool |-> name]
         ELSE [kind |-> "errorFetching", tool |-> name, message |-> error.message]
    ELSE [kind |-> "unknownError", tool |-> name]

(* genres.find with an exact comparison of the names.                      *)
findExact(genres, genre) ==
    LET hits == { i \in DOMAIN genres : genres[i].name = genre } IN
    IF hits = {} THEN Undefined
    ELSE genres[CHOOSE i \in hits : \A j \in hits : i <= j]

(* genres.find((g) => g.name.toLowerCase() === params.genre.toLowerCase()) *)
find(genres, genre) ==
    LET hits == { i \in DOMAIN genres :
                    toLowerCase(genres[i].name) = toLowerCase(genre) } IN
    IF hits = {} THEN Undefined
    ELSE genres[CHOOSE i \in hits : \A j \in hits : i <= j]

(* The state a handler works on, and the same state after a step of it.    *)
World ==
    [handler |-> handler, run |-> run, requests |-> requests,
     calls |-> calls, cache |-> cache, now |-> now]

handlerReturns(w, out) ==
    [w EXCEPT !.handler.pc = "done", !.handler.out = out]

awaitsTmdb(w, op, mediaType, id, step) ==
    LET after == tmdbEnter(op, mediaType, id, w.requests) IN
    [w EXCEPT !.run = after[1], !.requests = after[2],
              !.handler.pc = "tmdb", !.handler.step = step]

(* The catch block as it would be if it handled Error values only.         *)
caughtErrorsOnly(w, error) ==
    IF error.tag = "throw"
    THEN handlerReturns(w, catchOutput(w.handler.name, error))
    ELSE handlerReturns(w, [kind |-> "escaped", tool |-> w.handler.name])

(* What the handler awaited threw: the catch block returns its string.     *)
caught(w, error) == handlerReturns(w, catchOutput(w.handler.name, error))

RECURSIVE rate(_), rated(_)

(* GET_ENTERTAINMENT_SUGGESTIONS: the loop over tmdbMovies, from the       *)
(* movie at handler.idx to the next await or to the return.                *)
rate(w) ==
    LET h == w.handler IN
    IF h.idx > Len(h.tmdbMovies)
    THEN IF h.suggestedMovies = <<>>
         THEN handlerReturns(w, [kind |-> "noMatch", tool |-> h.name])
         ELSE handlerReturns(w, [kind |-> "list", tool |-> h.name,
                                 entries |-> top(h.name, h.suggestedMovies)])
    ELSE LET movie == h.tmdbMovies[h.idx] IN
         IF ~truthy(movie.imdbId) THEN rate([w EXCEPT !.handler.idx = @ + 1])
         ELSE LET call == getByImdbIdEnter(
                      [newCall("getByImdbId", h.svc, movie.imdbId.value,
                               NoType, h.name) EXCEPT !.startT = w.now + 1],
                      w.cache[h.svc]) IN
              IF call.pc = "done"
              THEN rated([w EXCEPT !.calls = Append(@, finished(call, w.now + 2)),
                                   !.now = @ + 2])
              ELSE [w EXCEPT !.calls = Append(@, call), !.now = @ + 1,
                             !.handler.pc = "omdb"]

(* rated as it would be if a lookup that gave no record ended the tool     *)
(* with an error string.                                                   *)
ratedNullIsError(w) ==
    LET h == w.handler
        omdbDetails == w.calls[Len(w.calls)].result IN
    IF omdbDetails.tag # "item"
    THEN caught(w, IF omdbDetails.tag = "throw" THEN omdbDetails
                   ELSE Thrown(FetchFailed))
    ELSE LET keep == gte(parseFloat(omdbDetails.item.rating),
                         nullish(h.minImdbRating, Num(0))) IN
         rate([w EXCEPT !.handler.pc = "run", !.handler.idx = @ + 1,
                        !.handler.suggestedMovies =
                            IF keep THEN Append(@, h.tmdbMovies[h.idx]) ELSE @])

(* The getByImdbId the loop awaited, the last of calls, has returned.      *)
rated(w) ==
    LET h == w.handler
        omdbDetails == w.calls[Len(w.calls)].result IN
    IF omdbDetails.tag = "throw" THEN caught(w, omdbDetails)
    ELSE LET keep == /\ omdbDetails.tag = "item"
                     /\ gte(parseFloat(omdbDetails.item.rating),
                            nullish(h.minImdbRating, Num(0))) IN
         rate([w EXCEPT !.handler.pc = "run", !.handler.idx = @ + 1,
                        !.handler.suggestedMovies =
                            IF keep THEN Append(@, h.tmdbMovies[h.idx]) ELSE @])

(* The genre tools as they would be if an unmatched name fell back on the  *)
(* first genre of the list.                                                *)
genreSelectedOrFirst(w, genres) ==
    LET h == w.handler
        selectedGenre == find(genres, h.genre)
        w1 == [w EXCEPT !.handler.genres = genres, !.handler.step = "resolved",
                        !.handler.selectedGenre = selectedGenre] IN
    IF genres = <<>>
    THEN handlerReturns(w1, [kind |-> "genreNotFound", tool |-> h.name,
                             genre |-> h.genre])
    ELSE awaitsTmdb(w1, "discoverByGenre", h.mediaType,
                    IF selectedGenre = Undefined THEN genres[1].id
                    ELSE selectedGenre.id, "discover")

(* The genre tools once getGenres has returned the list.                   *)
genreSelected(w, genres) ==
    LET h == w.handler
        selectedGenre == find(genres, h.genre)
        w1 == [w EXCEPT !.handler.genres = genres, !.handler.step = "resolved",
                        !.handler.selectedGenre = selectedGenre] IN
    IF ~truthy(selectedGenre)
    THEN handlerReturns(w1, [kind |-> "genreNotFound", tool |-> h.name,
                             genre |-> h.genre])
    ELSE LET w2 == awaitsTmdb(w1, "discoverByGenre", h.mediaType,
                              selectedGenre.id, "discover") IN
         IF w2.run.pc = "done" THEN caught(w2, w2.run.result) ELSE w2

(* A handler from the return of the operation it awaits to its next await  *)
(* or to its return.                                                       *)
executeResumed(w) ==
    LET h == w.handler
        result == w.run.result IN
    IF h.pc # "tmdb" \/ w.run.pc # "done" THEN w
    ELSE IF result.tag \in {"throw", "throwValue"}
    THEN caught(w, result)
    ELSE IF h.name = "GET_TMDB_COLLECTION_DETAILS"
    THEN IF ~truthy(result)
         THEN handlerReturns(w, [kind |-> "noCollection", tool |-> h.name,
                                 id |-> h.id])
         ELSE handlerReturns(w, [kind |-> "collection", tool |-> h.name,
                                 collection |-> result.collection])
    ELSE IF h.name \in GenreTools /\ h.step = "genres"
    THEN genreSelected(w, result.genres)
    ELSE IF listOf(result) = <<>>
    THEN handlerReturns(w, [kind |-> "noneFound", tool |-> h.name])
    ELSE IF h.name = "GET_ENTERTAINMENT_SUGGESTIONS"
    THEN rate([w EXCEPT !.handler.pc = "run", !.handler.idx = 1,
                        !.handler.tmdbMovies = result.items])
    ELSE handlerReturns(w, [kind |-> "list", tool |-> h.name,
                            entries |-> top(h.name, listOf(result))])

(* What the provider answers to the handlers' requests.                    *)
genreOf(id, name) == [tag |-> "object", id |-> id, name |-> name]
Action == <<"A","c","t","i","o","n">>
Drama == <<"D","r","a","m","a">>
GenreRequests ==
    { Action, toLowerCase(Action), <<"A","C","T","I","O","N">>,
      <<"A","c","t">>, <<"t","i","o","n">> }

HandlerLists(op) ==
    IF op = "getTrending"
    THEN { <<>>, <<[id |-> 11, media_type |-> "movie"]>>,
           <<[id |-> 12, media_type |-> "person"], [id |-> 11, media_type |-> "tv"]>> }
    ELSE { <<>>, <<[id |-> 11]>>, <<[id |-> 12], [id |-> 11]>> }

ListPayloads(op) ==
    CASE op = "getGenres" ->
            { [genres |-> <<>>],
              [genres |-> <<genreOf(28, Action), genreOf(18, Drama)>>],
              [genres |-> <<genreOf(1, toLowerCase(Action)), genreOf(28, Action)>>] }
      [] op = "searchPerson" ->
            { [results |-> <<>>],
              [results |-> <<[id |-> 31, name |-> "Ed Asner"]>>] }
      [] op = "searchCollections" ->
            { [results |-> <<>>],
              [results |-> <<[id |-> 10, name |-> "Up Collection",
                              overview |-> Null]>>] }
      [] op = "getCollectionDetails" ->
            { [id |-> 10, name |-> "Up Collection", overview |-> Str("All of Up."),
               parts |-> <<>>] }
      [] OTHER -> {}

HandlerPayloads(op) ==
    IF op \in ItemOps THEN { [results |-> l] : l \in HandlerLists(op) }
    ELSE ListPayloads(op)

----------------------------------------------------------------------------
(* Actions.                                                                *)

getByTitle(s, title, type) ==
    /\ s \in DOMAIN cache
    /\ LET call == getByTitleEnter(newCall("getByTitle", s, title, type, "none"),
                                   cache[s]) IN
       /\ calls' = Append(calls, finished(call, now + 2))
       /\ now' = now + 1 + tick(call)
    /\ UNCHANGED <<omdbApiKey, cache, tmdbVars>>

getByTitleResumed(c, o) ==
    /\ c \in DOMAIN calls
    /\ calls[c].op = "getByTitle"
    /\ calls[c].pc = "fetch"
    /\ LET after == getByTitleSettled(settles(calls[c], o), cache[calls[c].svc], o) IN
       /\ calls' = [calls EXCEPT ![c] = finished(after[1], now + 1)]
       /\ cache' = [cache EXCEPT ![calls[c].svc] = after[2]]
       /\ now' = now + tick(after[1])
    /\ UNCHANGED <<omdbApiKey, tmdbVars>>

getImdbSummary(s, title) ==
    /\ s \in DOMAIN cache
    /\ LET call == getImdbSummaryEnter(
                       newCall("getImdbSummary", s, title, NoType, "none")) IN
       /\ calls' = Append(calls, finished(call, now + 2))
       /\ now' = now + 1 + tick(call)
    /\ UNCHANGED <<omdbApiKey, cache, tmdbVars>>

getImdbSummaryResumed(c, o) ==
    /\ c \in DOMAIN calls
    /\ calls[c].op = "getImdbSummary"
    /\ calls[c].pc = "fetch"
    /\ LET after == getImdbSummarySettled(settles(calls[c], o), o) IN
       /\ calls' = [calls EXCEPT ![c] = finished(after, now + 1)]
       /\ now' = now + tick(after)
    /\ UNCHANGED <<omdbApiKey, cache, tmdbVars>>

getByImdbId(s, imdbId) ==
    /\ s \in DOMAIN cache
    /\ LET call == getByImdbIdEnter(
                       newCall("getByImdbId", s, imdbId, NoType, "none"),
                       cache[s]) IN
       /\ calls' = Append(calls, finished(call, now + 2))
       /\ now' = now + 1 + tick(call)
    /\ UNCHANGED <<omdbApiKey, cache, tmdbVars>>

getByImdbIdResumed(c, o) ==
    /\ c \in DOMAIN calls
    /\ calls[c].op = "getByImdbId"
    /\ calls[c].pc = "fetch"
    /\ LET after == getByImdbIdSettled(settles(calls[c], o), cache[calls[c].svc], o) IN
       /\ calls' = [calls EXCEPT ![c] = finished(after[1], now + 1)]
       /\ cache' = [cache EXCEPT ![calls[c].svc] = after[2]]
       /\ now' = now + tick(after[1])
    /\ UNCHANGED <<omdbApiKey, tmdbVars>>

(* GET_OMDB_INFO: execute constructs its own OmdbService and awaits        *)
(* getByTitle on it; the handler returns when the call does.               *)
omdbDetailsExecute(query, type) ==
    LET s == Len(cache) + 1
        call == getByTitleEnter(
                    newCall("getByTitle", s, query, type, "GET_OMDB_INFO"),
                    EmptyMap) IN
    /\ cache' = Append(cache, EmptyMap)
    /\ calls' = Append(calls, finished(call, now + 2))
    /\ now' = now + 1 + tick(call)
    /\ UNCHANGED <<omdbApiKey, tmdbVars>>

----------------------------------------------------------------------------
(* Specifications.                                                         *)

(* One OmdbService, constructed, with any client calling its methods.      *)
InitService ==
    /\ omdbApiKey \in {"", "k3y"}
    /\ cache = <<EmptyMap>>
    /\ calls = <<>>
    /\ now = 0
    /\ tmdbApiKey = ""
    /\ run = IdleRun
    /\ handler = NoTool
    /\ requests = <<>>

Init == InitService

Next ==
    \/ /\ Len(calls) < MaxCalls
       /\ \E title \in { <<"U","p">>, <<"U","P">> }, type \in {NoType, "movie"} :
              getByTitle(1, title, type)
    \/ \E c \in DOMAIN calls, o \in Outcomes : getByTitleResumed(c, o)
    \/ /\ Len(calls) < MaxCalls
       /\ \E title \in { <<"U","p">>, <<"U","P">> } : getImdbSummary(1, title)
    \/ \E c \in DOMAIN calls, o \in Outcomes : getImdbSummaryResumed(c, o)
    \/ /\ Len(calls) < MaxCalls
       /\ \E imdbId \in ImdbIds : getByImdbId(1, imdbId)
    \/ \E c \in DOMAIN calls, o \in Outcomes : getByImdbIdResumed(c, o)

Spec == Init /\ [][Next]_vars

(* One OmdbService and lookups by id only: enough calls for two concurrent *)
(* lookups and a later one.                                                *)
NextId ==
    \/ /\ Len(calls) < MaxIdCalls
       /\ \E imdbId \in ImdbIds : getByImdbId(1, imdbId)
    \/ \E c \in DOMAIN calls, o \in Outcomes : getByImdbIdResumed(c, o)

SpecId == InitService /\ [][NextId]_vars

(* One OmdbService and lookups of one title, typed or not: enough calls    *)
(* for two concurrent lookups and a later one.                             *)
NextTitle ==
    \/ /\ Len(calls) < MaxTitleCalls
       /\ \E type \in Hints : getByTitle(1, <<"U","p">>, type)
    \/ \E c \in DOMAIN calls, o \in Outcomes : getByTitleResumed(c, o)

SpecTitle == InitService /\ [][NextTitle]_vars

(* The process: every GET_OMDB_INFO invocation runs its handler.           *)
InitTools ==
    /\ omdbApiKey \in {"", "k3y"}
    /\ cache = <<>>
    /\ calls = <<>>
    /\ now = 0
    /\ tmdbApiKey = ""
    /\ run = IdleRun
    /\ handler = NoTool
    /\ requests = <<>>

NextTools ==
    \/ /\ Len(calls) < MaxToolRuns
       /\ \E query \in Titles, type \in ToolHints : omdbDetailsExecute(query, type)
    \/ \E c \in DOMAIN calls, o \in FetchOutcomes : getByTitleResumed(c, o)

SpecTools == InitTools /\ [][NextTools]_vars

----------------------------------------------------------------------------
(* TmdbService: actions.  The operation in progress is in run; a handler   *)
(* that awaits it resumes in the step in which the operation returns.      *)

PrimaryPayloads(op) ==
    IF op \in ItemOps THEN { [results |-> l] : l \in ResultLists(op) }
    ELSE ListPayloads(op)

(* History: a fetch of the i-th record settles while the fetch, of the     *)
(* same batch, of an earlier record is still in flight.                    *)
overtakes(r, batch, i) ==
    [r EXCEPT !.overtaken = @ \/ \E j \in 1..(i - 1) : batch[j] = InFlight]

(* The operation has taken a step, <<run, requests>> afterwards, and the   *)
(* handler awaiting it, if any, goes on when the operation has returned.   *)
becomes(w) ==
    /\ handler' = w.handler
    /\ run' = w.run
    /\ requests' = w.requests
    /\ calls' = w.calls
    /\ cache' = w.cache
    /\ now' = w.now
    /\ UNCHANGED <<omdbApiKey, tmdbApiKey>>

delivers(after) ==
    becomes(executeResumed([World EXCEPT !.run = after[1],
                                          !.requests = after[2]]))

tmdbCall(op, mediaType, id) ==
    /\ run.pc = "idle"
    /\ handler.pc = "idle"
    /\ delivers(tmdbEnter(op, mediaType, id, requests))

tmdbPrimaryResumed(o) ==
    /\ run.pc = "primary"
    /\ o.ok => o.data \in PrimaryPayloads(run.op)
                        \cup NormalPayloads(run.op, run.mediaType)
                        \cup { [results |-> l] : l \in DiscoveredLists }
    /\ delivers(tmdbPrimarySettled(run, requests, o))

tmdbDetailResumed(i, o) ==
    /\ i \in DOMAIN run.details
    /\ run.details[i] = InFlight
    /\ o.ok => o.data \in DetailPayloads(detailKind(run.op, run.mediaType, run.base[i]))
                        \cup IdPayloads(run.base[i].id)
    /\ delivers(tmdbDetailSettled(overtakes(run, run.details, i), requests, i, o))

tmdbProvidersResumed(i, o) ==
    /\ i \in DOMAIN run.providers
    /\ run.providers[i] = InFlight
    /\ o.ok => o.data \in ProvidersPayloads
    /\ delivers(<<tmdbProvidersSettled(overtakes(run, run.providers, i), i, o),
                  requests>>)

----------------------------------------------------------------------------
(* One TmdbService and one call of an item-producing operation on it: the  *)
(* class keeps no state between calls but its key.                         *)

NoOmdb ==
    /\ omdbApiKey = "k3y"
    /\ cache = <<>>
    /\ calls = <<>>
    /\ now = 0

OpCalls ==
    { <<"getMovieByTitle", "movie">>, <<"getTvShowByTitle", "tv">>,
      <<"getTrending", "all">>, <<"getPopular", "movie">>, <<"getPopular", "tv">>,
      <<"discoverByActor", "movie">>, <<"discoverByActor", "tv">>,
      <<"discoverByGenre", "movie">>, <<"discoverByGenre", "tv">> }

EnrichOutcomes(payloads) ==
    { Resolved(d) : d \in payloads } \cup { Rejected("transport") }

InitTmdb ==
    /\ NoOmdb
    /\ tmdbApiKey \in {"", "k3y"}
    /\ run = IdleRun
    /\ handler = NoTool
    /\ requests = <<>>

NextTmdb ==
    \/ \E c \in OpCalls : tmdbCall(c[1], c[2], 0)
    \/ \E o \in EnrichOutcomes(PrimaryPayloads(run.op)) : tmdbPrimaryResumed(o)
    \/ \E i \in DOMAIN run.details :
          \E o \in EnrichOutcomes(DetailPayloads("movie") \cup DetailPayloads("tv")) :
              tmdbDetailResumed(i, o)
    \/ \E i \in DOMAIN run.providers, o \in EnrichOutcomes(ProvidersPayloads) :
          tmdbProvidersResumed(i, o)

SpecTmdb == InitTmdb /\ [][NextTmdb]_vars

----------------------------------------------------------------------------
(* The process: one tool invocation runs its handler.  A handler shares no *)
(* state with another: it works on services it constructs itself.          *)

ParamsOf(name) ==
    CASE name = "GET_TMDB_INFO" ->
            { [NoParams EXCEPT !.mediaType = t] : t \in {"movie", "tv"} }
      [] name = "GET_TMDB_TRENDING" -> { [NoParams EXCEPT !.mediaType = "all"] }
      [] name = "GET_TMDB_POPULAR" -> { [NoParams EXCEPT !.mediaType = "movie"] }
      [] name = "GET_TMDB_DISCOVER_BY_ACTOR" ->
            { [NoParams EXCEPT !.mediaType = "tv", !.id = 31] }
      [] name = "GET_TMDB_COLLECTION_DETAILS" -> { [NoParams EXCEPT !.id = 999] }
      [] name = "GET_TMDB_BY_GENRE" ->
            { [NoParams EXCEPT !.mediaType = "tv", !.genre = g] : g \in GenreRequests }
      [] name = "GET_ENTERTAINMENT_SUGGESTIONS" ->
            { [NoParams EXCEPT !.mediaType = "movie", !.genre = g,
                               !.minImdbRating = m] :
                g \in GenreRequests, m \in {Undefined, Num(90)} }
      [] OTHER -> { NoParams }

execute(name, params) ==
    /\ handler.pc = "idle"
    /\ run.pc = "idle"
    /\ calls = <<>>
    /\ LET w == [World EXCEPT
                    !.handler = newHandler(name, params, Len(cache) + 1),
                    !.cache = IF name = "GET_ENTERTAINMENT_SUGGESTIONS"
                              THEN Append(cache, EmptyMap) ELSE cache] IN
       becomes(executeResumed(
           awaitsTmdb(w, firstOp(name, params), params.mediaType, params.id,
                      IF name \in GenreTools THEN "genres" ELSE "first")))

(* The getByImdbId that GET_ENTERTAINMENT_SUGGESTIONS awaits settles, and  *)
(* the loop goes on.                                                       *)
suggestionsRated(o) ==
    /\ handler.pc = "omdb"
    /\ LET c == Len(calls)
           after == getByImdbIdSettled(settles(calls[c], o),
                                       cache[calls[c].svc], o) IN
       becomes(rated([World EXCEPT !.calls[c] = finished(after[1], now + 1),
                                   !.cache[calls[c].svc] = after[2],
                                   !.now = now + 1]))

HandlerOutcomes(payloads) ==
    { Resolved(d) : d \in payloads } \cup { Rejected(e) : e \in FetchErrors }

InitHandlers ==
    /\ omdbApiKey \in {"", "k3y"}
    /\ tmdbApiKey \in {"", "k3y"}
    /\ cache = <<>>
    /\ calls = <<>>
    /\ now = 0
    /\ run = IdleRun
    /\ handler = NoTool
    /\ requests = <<>>

NextHandlers ==
    \/ \E name \in TmdbTools : \E params \in ParamsOf(name) : execute(name, params)
    \/ \E o \in HandlerOutcomes(HandlerPayloads(run.op)) : tmdbPrimaryResumed(o)
    \/ \E i \in DOMAIN run.details :
          \E o \in HandlerOutcomes(DetailPayloads("movie") \cup DetailPayloads("tv")) :
              tmdbDetailResumed(i, o)
    \/ \E i \in DOMAIN run.providers, o \in EnrichOutcomes(ProvidersPayloads) :
          tmdbProvidersResumed(i, o)
    \/ \E o \in Outcomes : suggestionsRated(o)
    \/ /\ handler.pc = "idle"
       /\ calls = <<>>
       /\ \E query \in Titles, type \in ToolHints : omdbDetailsExecute(query, type)
    \/ /\ handler.pc = "idle"
       /\ \E c \in DOMAIN calls, o \in FetchOutcomes : getByTitleResumed(c, o)

SpecHandlers == InitHandlers /\ [][NextHandlers]_vars

----------------------------------------------------------------------------
(* The process with either key configured or not: a client calls an        *)
(* operation of a service directly, or a tool invocation runs its handler. *)


InitConfig ==
    /\ omdbApiKey \in {"", "k3y"}
    /\ tmdbApiKey \in {"", "k3y"}
    /\ cache = <<EmptyMap>>
    /\ calls = <<>>
    /\ now = 0
    /\ run = IdleRun
    /\ handler = NoTool
    /\ requests = <<>>

NextConfig ==
    \/ \E name \in TmdbTools : \E params \in ParamsOf(name) : execute(name, params)
    \/ /\ calls = <<>>
       /\ \E c \in OpCalls \cup { <<"getGenres", "movie">>, <<"searchPerson", "none">>,
                                  <<"searchCollections", "none">>,
                                  <<"getCollectionDetails", "none">> } :
              tmdbCall(c[1], c[2], 0)
    \/ \E o \in HandlerOutcomes(HandlerPayloads(run.op)) : tmdbPrimaryResumed(o)
    \/ \E i \in DOMAIN run.details :
          \E o \in HandlerOutcomes(DetailPayloads("movie") \cup DetailPayloads("tv")) :
              tmdbDetailResumed(i, o)
    \/ \E i \in DOMAIN run.providers, o \in EnrichOutcomes(ProvidersPayloads) :
          tmdbProvidersResumed(i, o)
    \/ \E o \in Outcomes : suggestionsRated(o)
    \/ /\ handler.pc = "idle"
       /\ run.pc = "idle"
       /\ Len(calls) < MaxDirectCalls
       /\ \/ \E type \in Hints : getByTitle(1, <<"U","p">>, type)
          \/ getImdbSummary(1, <<"U","p">>)
          \/ \E imdbId \in ImdbIds : getByImdbId(1, imdbId)
          \/ \E type \in ToolHints : omdbDetailsExecute(<<"U","p">>, type)
    \/ /\ handler.pc = "idle"
       /\ \E c \in DOMAIN calls, o \in FetchOutcomes :
             \/ getByTitleResumed(c, o)
             \/ getImdbSummaryResumed(c, o)
             \/ getByImdbIdResumed(c, o)

SpecConfig == InitConfig /\ [][NextConfig]_vars

----------------------------------------------------------------------------
(* One TmdbService with its key configured and one call of an operation    *)
(* that shapes records, answered with records of every admitted shape.     *)


InitNormalize ==
    /\ NoOmdb
    /\ tmdbApiKey = "k3y"
    /\ run = IdleRun
    /\ handler = NoTool
    /\ requests = <<>>

NextNormalize ==
    \/ \E c \in OpCalls \cup { <<"searchPerson", "none">>,
                               <<"searchCollections", "none">>,
                               <<"getCollectionDetails", "none">> } :
          tmdbCall(c[1], c[2], 0)
    \/ \E d \in NormalPayloads(run.op, run.mediaType) :
          tmdbPrimaryResumed(Resolved(d))
    \/ \E i \in DOMAIN run.details :
          \E o \in EnrichOutcomes(DetailPayloads("movie") \cup DetailPayloads("tv")) :
              tmdbDetailResumed(i, o)
    \/ \E i \in DOMAIN run.providers, o \in EnrichOutcomes(ProvidersPayloads) :
          tmdbProvidersResumed(i, o)

SpecNormalize == InitNormalize /\ [][NextNormalize]_vars

----------------------------------------------------------------------------
(* One invocation of GET_ENTERTAINMENT_SUGGESTIONS for a genre the         *)
(* provider lists, with more movies discovered than the tool prints.       *)



InitSuggestions ==
    /\ omdbApiKey \in {"", "k3y"}
    /\ tmdbApiKey = "k3y"
    /\ cache = <<>>
    /\ calls = <<>>
    /\ now = 0
    /\ run = IdleRun
    /\ handler = NoTool
    /\ requests = <<>>

NextSuggestions ==
    \/ \E params \in { [NoParams EXCEPT !.mediaType = "movie", !.genre = Action,
                                         !.minImdbRating = m] :
                           m \in {Undefined, Num(80), Num(90)} } :
          execute("GET_ENTERTAINMENT_SUGGESTIONS", params)
    \/ /\ run.op = "getGenres"
       /\ tmdbPrimaryResumed(
              Resolved([genres |-> <<genreOf(28, Action), genreOf(18, Drama)>>]))
    \/ /\ run.op = "discoverByGenre"
       /\ \E l \in DiscoveredLists : tmdbPrimaryResumed(Resolved([results |-> l]))
    \/ \E i \in DOMAIN run.details : \E d \in IdPayloads(run.base[i].id) :
          tmdbDetailResumed(i, Resolved(d))
    \/ \E o \in { Resolved(FullRecord), Resolved(BareRecord),
                  Resolved(MovieNotFound), Rejected("transport") } :
          suggestionsRated(o)

SpecSuggestions == InitSuggestions /\ [][NextSuggestions]_vars

----------------------------------------------------------------------------
(* The tools over a provider that may refuse the key it is sent: the       *)
(* primary request of a handler may also be rejected with the provider's   *)
(* own message.                                                            *)

InitUpstream ==
    /\ omdbApiKey \in {"", "k3y"}
    /\ tmdbApiKey \in {"", "k3y"}
    /\ cache = <<>>
    /\ calls = <<>>
    /\ now = 0
    /\ run = IdleRun
    /\ handler = NoTool
    /\ requests = <<>>

NextUpstream ==
    \/ \E name \in TmdbTools : \E params \in ParamsOf(name) : execute(name, params)
    \/ \E o \in HandlerOutcomes(HandlerPayloads(run.op))
                   \cup { Rejected("unauthorized") } : tmdbPrimaryResumed(o)
    \/ \E i \in DOMAIN run.details :
          \E o \in EnrichOutcomes(DetailPayloads("movie") \cup DetailPayloads("tv")) :
              tmdbDetailResumed(i, o)
    \/ \E i \in DOMAIN run.providers, o \in EnrichOutcomes(ProvidersPayloads) :
          tmdbProvidersResumed(i, o)
    \/ \E o \in Outcomes : suggestionsRated(o)

SpecUpstream == InitUpstream /\ [][NextUpstream]_vars

----------------------------------------------------------------------------
(* Vocabulary of the properties.                                           *)

Call(c) == calls[c]
Fetched(call) == Len(call.reqs) > 0
ReturnedItem(call) == call.pc = "done" /\ call.result.tag = "item"
NotFound(o) == o.ok /\ o.data.Response = "False"
Found(o) == o.ok /\ o.data.Response # "False"
TransportFailure(o) == ~o.ok /\ o.error = "transport"
MentionsSeries(o) == "Error" \in DOMAIN o.data /\ includes(o.data.Error, Series)

SameLookup(c1, c2) ==
    /\ Call(c1).svc = Call(c2).svc
    /\ Call(c1).op = Call(c2).op
    /\ Call(c1).arg = Call(c2).arg
    /\ Call(c1).type = Call(c2).type

(* c1 returned before c2 was made.                                         *)
Before(c1, c2) == Call(c1).pc = "done" /\ Call(c1).endT < Call(c2).startT

(* c2 follows c1 with no lookup that fetched a record returning on the     *)
(* same service in between.                                                *)
Sequential(c1, c2) ==
    /\ Before(c1, c2)
    /\ \A c3 \in DOMAIN calls \ {c1, c2} :
          ~ /\ Call(c3).svc = Call(c1).svc
            /\ ReturnedItem(Call(c3))
            /\ Fetched(Call(c3))
            /\ Call(c1).endT < Call(c3).endT
            /\ Call(c3).endT < Call(c2).startT

(* The memo key the documentation gives for a lookup of the given type.    *)
MemoKey(call, type) ==
    IF call.op = "getByImdbId" THEN <<"id", call.arg>>
    ELSE <<"title", IF type = NoType THEN "auto" ELSE type, toLowerCase(call.arg)>>

----------------------------------------------------------------------------
(* C1: an untyped getByTitle whose first request is answered not-found     *)
(* retries with type=movie when the Error text mentions "Series" and with  *)
(* type=series otherwise, and returns what the retry gives.                *)
C1_RetryCarriesTheOtherType ==
    \A c \in DOMAIN calls :
        LET call == Call(c) IN
        (/\ call.op = "getByTitle"
         /\ call.type = NoType
         /\ Len(call.resps) >= 1
         /\ NotFound(call.resps[1]))
        => /\ Len(call.reqs) <= 2
           /\ Len(call.reqs) = 2 =>
                 call.reqs[2].type =
                     IF MentionsSeries(call.resps[1]) THEN "movie" ELSE "series"
           /\ Len(call.resps) = 2 =>
                 /\ call.pc = "done"
                 /\ call.result = IF Found(call.resps[2])
                                  THEN Item(normalize(call.resps[2].data))
                                  ELSE Null

(* C2: one getByTitle call issues at most two requests without a type      *)
(* hint and at most one with a hint, and the second request is typed, so   *)
(* that its not-found answer ends the call.                                *)
C2_AtMostOneRetry ==
    \A c \in DOMAIN calls :
        LET call == Call(c) IN
        call.op = "getByTitle" =>
            /\ Len(call.reqs) <= IF call.type = NoType THEN 2 ELSE 1
            /\ Len(call.reqs) = 2 => "type" \in DOMAIN call.reqs[2]
            /\ (Len(call.resps) = 2 /\ ~Found(call.resps[2])) =>
                   call.pc = "done" /\ call.result = Null

(* The retry of an untyped lookup was itself answered not-found and the    *)
(* call ended there.                                                       *)
C2_Witness ==
    \E c \in DOMAIN calls :
        /\ Call(c).op = "getByTitle"
        /\ Call(c).type = NoType
        /\ Len(Call(c).resps) = 2
        /\ NotFound(Call(c).resps[2])
        /\ Call(c).pc = "done"

(* C3 as stated: two sequential getByImdbId calls with one id issue at     *)
(* most one request in total whatever the first was answered, and the      *)
(* second returns what the first returned.                                 *)
C3_OneRequestWhateverTheAnswer ==
    \A c1, c2 \in DOMAIN calls :
        (/\ Call(c1).op = "getByImdbId"
         /\ SameLookup(c1, c2)
         /\ Sequential(c1, c2))
        => /\ Len(Call(c1).reqs) + Len(Call(c2).reqs) <= 1
           /\ Call(c2).pc = "done" => Call(c2).result = Call(c1).result

(* C3 amended: two sequential getByImdbId calls with one id, the first of  *)
(* which returned a record, issue at most one request in total and the     *)
(* second returns the same record.                                         *)
C3_OneRequestAfterARecord ==
    \A c1, c2 \in DOMAIN calls :
        (/\ Call(c1).op = "getByImdbId"
         /\ SameLookup(c1, c2)
         /\ Sequential(c1, c2)
         /\ ReturnedItem(Call(c1)))
        => /\ Len(Call(c1).reqs) + Len(Call(c2).reqs) <= 1
           /\ Call(c2).pc = "done"
           /\ Call(c2).result = Call(c1).result

(* A lookup fetched a record and a later lookup of the same id returned.   *)
C3_Witness ==
    \E c1, c2 \in DOMAIN calls :
        /\ Call(c1).op = "getByImdbId"
        /\ SameLookup(c1, c2)
        /\ Sequential(c1, c2)
        /\ ReturnedItem(Call(c1))
        /\ Fetched(Call(c1))
        /\ ReturnedItem(Call(c2))

(* C4: the memo is one map for the process: a record that the lookup of    *)
(* one GET_OMDB_INFO invocation fetched and memoized is found, without a   *)
(* request, by the same lookup of a later invocation.                      *)
C4_MemoSharedAcrossInvocations ==
    \A c1, c2 \in DOMAIN calls :
        (/\ Call(c1).tool = "GET_OMDB_INFO"
         /\ Call(c2).tool = "GET_OMDB_INFO"
         /\ Call(c1).arg = Call(c2).arg
         /\ Call(c1).type = Call(c2).type
         /\ Before(c1, c2)
         /\ ReturnedItem(Call(c1))
         /\ Len(Call(c1).resps) = 1)
        => /\ Call(c1).svc = Call(c2).svc
           /\ ~Fetched(Call(c2))

(* An invocation of getByTitle or getByImdbId is entered in this step for  *)
(* call c: the call is made, or an untyped getByTitle calls itself typed.  *)
Entered(c) ==
    \/ c \notin DOMAIN calls
    \/ /\ c \in DOMAIN calls
       /\ calls[c].pc = "fetch"
       /\ calls[c].curType = NoType
       /\ calls'[c].curType # NoType

(* C5: when the memo holds an entry for the key of an invocation of        *)
(* getByTitle ("title", type or "auto", lowercased title) or getByImdbId   *)
(* ("id", imdbId), the invocation returns the stored record and issues no  *)
(* request; the memo has no key of another form.                           *)
C5_MemoHitShortCircuits ==
    [][ /\ \A c \in DOMAIN calls' :
              LET call == calls'[c]
                  m == cache[call.svc]
                  key == MemoKey(call, call.curType) IN
              (/\ call.op \in {"getByTitle", "getByImdbId"}
               /\ Entered(c)
               /\ call.svc \in DOMAIN cache
               /\ key \in DOMAIN m)
              => /\ call.pc = "done"
                 /\ call.result = Item(m[key])
                 /\ call.reqs = IF c \in DOMAIN calls THEN calls[c].reqs ELSE <<>>
        /\ \A s \in DOMAIN cache' : \A k \in DOMAIN cache'[s] :
              \/ k[1] = "id" /\ Len(k) = 2
              \/ /\ k[1] = "title"
                 /\ Len(k) = 3
                 /\ k[3] = toLowerCase(k[3])
                 /\ k[2] # NoType
      ]_vars

(* A title lookup returned from the memo what a lookup of the same title   *)
(* in another letter case had stored.                                      *)
C5_Witness ==
    \E c1, c2 \in DOMAIN calls :
        /\ Call(c1).op = "getByTitle"
        /\ Call(c2).op = "getByTitle"
        /\ Before(c1, c2)
        /\ Call(c1).arg # Call(c2).arg
        /\ ReturnedItem(Call(c1))
        /\ ReturnedItem(Call(c2))
        /\ ~Fetched(Call(c2))

(* C6: after an untyped getByTitle(title) returned a record, the next      *)
(* untyped getByTitle(title) issues no request and returns that record,    *)
(* also when the first call got its record from the retry.                 *)
C6_SecondUntypedLookupIsMemoized ==
    \A c1, c2 \in DOMAIN calls :
        (/\ Call(c1).op = "getByTitle"
         /\ Call(c1).type = NoType
         /\ SameLookup(c1, c2)
         /\ Sequential(c1, c2)
         /\ ReturnedItem(Call(c1)))
        => /\ ~Fetched(Call(c2))
           /\ Call(c2).pc = "done"
           /\ Call(c2).result = Call(c1).result

(* The lookups that fetched a record now stored under key k of service s.  *)
Writers(s, k) ==
    { c \in DOMAIN calls :
        /\ Call(c).svc = s
        /\ Call(c).op \in {"getByTitle", "getByImdbId"}
        /\ ReturnedItem(Call(c))
        /\ Fetched(Call(c))
        /\ MemoKey(Call(c), Call(c).curType) = k }

(* Both lookups were in flight at once, each with a request of its own.    *)
Concurrent(c1, c2) ==
    /\ c1 # c2
    /\ Fetched(Call(c1))
    /\ Fetched(Call(c2))
    /\ ~Before(c1, c2)
    /\ ~Before(c2, c1)

(* C7: the memo entry of a key holds the record of the lookup that         *)
(* completed last, and once two concurrent lookups of one key have both    *)
(* returned a record, a later lookup of that key issues no request.        *)
C7_LastWriterWinsThenMemoized ==
    /\ \A s \in DOMAIN cache : \A k \in DOMAIN cache[s] :
          \E c \in Writers(s, k) :
              /\ cache[s][k] = Call(c).result.item
              /\ \A d \in Writers(s, k) : Call(d).endT <= Call(c).endT
    /\ \A c1, c2, c3 \in DOMAIN calls :
          (/\ SameLookup(c1, c2)
           /\ SameLookup(c1, c3)
           /\ Call(c1).op \in {"getByTitle", "getByImdbId"}
           /\ Concurrent(c1, c2)
           /\ ReturnedItem(Call(c1))
           /\ ReturnedItem(Call(c2))
           /\ Before(c1, c3)
           /\ Before(c2, c3))
          => ~Fetched(Call(c3))

(* C7 off the retry path: when at least one of the two concurrent lookups  *)
(* got its record from a request carrying the call's own type, the later   *)
(* lookup issues no request, and the last writer's record is the entry.    *)
C7_MemoizedOffTheRetryPath ==
    /\ \A s \in DOMAIN cache : \A k \in DOMAIN cache[s] :
          \E c \in Writers(s, k) :
              /\ cache[s][k] = Call(c).result.item
              /\ \A d \in Writers(s, k) : Call(d).endT <= Call(c).endT
    /\ \A c1, c2, c3 \in DOMAIN calls :
          (/\ SameLookup(c1, c2)
           /\ SameLookup(c1, c3)
           /\ Call(c1).op \in {"getByTitle", "getByImdbId"}
           /\ Concurrent(c1, c2)
           /\ ReturnedItem(Call(c1))
           /\ ReturnedItem(Call(c2))
           /\ (Call(c1).curType = Call(c1).type \/ Call(c2).curType = Call(c2).type)
           /\ Before(c1, c3)
           /\ Before(c2, c3))
          => ~Fetched(Call(c3))

(* C8: a key present in the memo of a service is present in every later    *)
(* state: no step removes a key or a service's memo.                       *)
C8_MemoKeysOnlyGrow ==
    [][ \A s \in DOMAIN cache :
            /\ s \in DOMAIN cache'
            /\ DOMAIN cache[s] \subseteq DOMAIN cache'[s] ]_vars

(* The memo holds a record, and calls of each kind made after it was       *)
(* stored have returned without one.                                       *)
C8_Witness ==
    \E c1, c2 \in DOMAIN calls :
        /\ ReturnedItem(Call(c1))
        /\ Fetched(Call(c1))
        /\ Call(c2).pc = "done"
        /\ Call(c2).result.tag \in {"null", "summary"}
        /\ Call(c1).endT < Call(c2).endT
        /\ DOMAIN cache[Call(c1).svc] # {}

(* The step belongs to a getImdbSummary call: it is made, or it resumes.   *)
SummaryStep ==
    \E c \in DOMAIN calls' :
        /\ calls'[c].op = "getImdbSummary"
        /\ (c \in DOMAIN calls => calls'[c] # calls[c])

(* C9: with the key configured, every getImdbSummary call issues exactly   *)
(* one request whatever the memo holds, its steps leave the memo as it     *)
(* was, and it returns imdbRating and imdbVotes of the answer and nothing  *)
(* else ("N/A" for each when the answer has none).                         *)
C9_SummaryBypassesMemo ==
    [][ /\ SummaryStep => cache' = cache
        /\ \A c \in DOMAIN calls' :
              LET call == calls'[c] IN
              (call.op = "getImdbSummary" /\ omdbApiKey # "") =>
                 /\ Len(call.reqs) = 1
                 /\ DOMAIN call.reqs[1] = {"apikey", "t"}
                 /\ call.pc = "done" <=> Len(call.resps) = 1
                 /\ call.pc = "done" =>
                       /\ call.result.tag = "summary"
                       /\ DOMAIN call.result.summary = {"imdbRating", "imdbVotes"}
                       /\ LET o == call.resps[1]
                              got(f) == IF Found(o) /\ f \in DOMAIN o.data
                                        THEN o.data[f] ELSE "N/A" IN
                          /\ call.result.summary.imdbRating = got("imdbRating")
                          /\ call.result.summary.imdbVotes = got("imdbVotes")
      ]_vars

(* A summary was fetched for a title whose record the memo holds, and it   *)
(* differs from the memoized rating.                                       *)
C9_Witness ==
    \E c \in DOMAIN calls :
        LET call == Call(c)
            key == <<"title", "auto", toLowerCase(call.arg)>> IN
        /\ call.op = "getImdbSummary"
        /\ call.pc = "done"
        /\ Len(call.reqs) = 1
        /\ key \in DOMAIN cache[call.svc]
        /\ \E d \in DOMAIN calls : Before(d, c) /\ Fetched(Call(d)) /\ ReturnedItem(Call(d))
        /\ call.result.summary.imdbRating # cache[call.svc][key].rating

(* C10: with the key configured no call throws, and a call whose last      *)
(* request met a transport failure has returned null (getByTitle,          *)
(* getByImdbId) or the "N/A" summary (getImdbSummary).                     *)
C10_TransportFailureIsAbsorbed ==
    omdbApiKey # "" =>
        \A c \in DOMAIN calls :
            LET call == Call(c) IN
            /\ call.result.tag # "throw"
            /\ (Len(call.resps) > 0 /\ TransportFailure(call.resps[Len(call.resps)])) =>
                  /\ call.pc = "done"
                  /\ call.result =
                        IF call.op = "getImdbSummary"
                        THEN Summary([imdbRating |-> "N/A", imdbVotes |-> "N/A"])
                        ELSE Null

(* The retry of a title lookup met a transport failure, and so did a       *)
(* summary and a lookup by id.                                             *)
C10_Witness ==
    /\ \E c \in DOMAIN calls :
          /\ Call(c).op = "getByTitle"
          /\ Len(Call(c).resps) = 2
          /\ TransportFailure(Call(c).resps[2])
    /\ \E c \in DOMAIN calls :
          /\ Call(c).op \in {"getImdbSummary", "getByImdbId"}
          /\ Len(Call(c).resps) = 1
          /\ TransportFailure(Call(c).resps[1])

----------------------------------------------------------------------------
(* Vocabulary of the properties of TmdbService.                            *)

EnrichingOps == ItemOps \ { "discoverByGenre" }
ReturnedItems == run.pc = "done" /\ run.result.tag = "items"
Rejects == run.pc = "done" /\ run.result.tag \in {"throw", "throwValue"}
Failed(status) == status.st = "settled" /\ ~status.outcome.ok
Succeeded(status) == status.st = "settled" /\ status.outcome.ok
Records == DOMAIN run.base
ProviderLookups(id) ==
    { k \in DOMAIN requests :
        requests[k].kind = "providers" /\ requests[k].id = id }

(* C11: in getMovieByTitle, getTvShowByTitle, getTrending, getPopular and  *)
(* discoverByActor, when the watch-provider fetch of a base record has     *)
(* failed and every fetch of the batch has settled, the operation has      *)
(* returned one item per base record, the item of each record whose fetch  *)
(* failed has watchProviders undefined, and the item of every other record *)
(* has the results its own fetch returned.                                 *)
C11_ProviderFailureDegradesOneItem ==
    ( /\ run.op \in EnrichingOps
      /\ \A i \in Records : run.providers[i].st = "settled"
      /\ \E i \in Records : Failed(run.providers[i]) )
    => /\ ReturnedItems
       /\ Len(run.result.items) = Len(run.base)
       /\ \A i \in Records :
             /\ "watchProviders" \in DOMAIN run.result.items[i]
             /\ run.result.items[i].watchProviders =
                   IF Failed(run.providers[i]) THEN Undefined
                   ELSE prop(run.providers[i].outcome.data, "results")

(* Two records: the fetch of one failed, the fetch of the other returned   *)
(* offers, and both items are there.                                       *)
C11_Witness ==
    /\ run.op \in EnrichingOps
    /\ ReturnedItems
    /\ Len(run.result.items) = 2
    /\ \E i, j \in Records :
          /\ Failed(run.providers[i])
          /\ run.result.items[i].watchProviders = Undefined
          /\ Succeeded(run.providers[j])
          /\ run.result.items[j].watchProviders = Netflix

(* C12: in every item-producing operation, once the detail fetch of a base *)
(* record has failed the operation has rejected: it returns no item list,  *)
(* whatever the primary request and the other fetches did.                 *)
C12_DetailFailureRejects ==
    ( /\ run.op \in ItemOps
      /\ \E i \in Records : Failed(run.details[i]) )
    => Rejects

(* Two records, the primary request succeeded, one detail fetch succeeded  *)
(* and the other failed.                                                   *)
C12_Witness ==
    /\ run.op \in ItemOps
    /\ Rejects
    /\ \E i, j \in Records :
          Failed(run.details[i]) /\ Succeeded(run.details[j])

(* C13: whatever the order in which the per-record fetches settled, the    *)
(* list an item-producing operation returns is as long as the results of   *)
(* the primary response and its i-th item has the id of the i-th record.   *)
C13_ItemsFollowTheBaseRecords ==
    (run.op \in ItemOps /\ ReturnedItems)
    => /\ Len(run.result.items) = Len(run.base)
       /\ \A i \in Records : run.result.items[i].id = run.base[i].id

(* A list of two items whose fetches settled out of the order of the list. *)
C13_Witness ==
    /\ run.op \in ItemOps
    /\ ReturnedItems
    /\ Len(run.result.items) >= 2
    /\ run.overtaken

(* C14, as stated: the external-id and the availability lookups of an      *)
(* invocation form one concurrent batch, so that while an external-id      *)
(* lookup is pending the availability lookups have been issued too.        *)
C14_OneConcurrentBatch ==
    ( /\ run.op \in EnrichingOps
      /\ run.pc # "done"
      /\ \E j \in Records : run.details[j] = InFlight )
    => \A i \in Records : run.providers[i] # Unissued

(* C14, amended: the lookups form two successive batches.  An availability *)
(* lookup is issued only when every external-id lookup of the invocation   *)
(* has succeeded, and then the availability lookups of all the records are *)
(* issued together: none is in flight while an external-id lookup pends.   *)
C14_TwoSuccessiveBatches ==
    run.op \in EnrichingOps
    => \A i \in Records :
          run.providers[i] # Unissued
          => /\ \A j \in Records :
                   run.details[j] = NotFetched \/ Succeeded(run.details[j])
             /\ \A j \in Records : run.providers[j] # Unissued

(* Two availability lookups in flight together, after both external-id     *)
(* lookups succeeded.                                                      *)
C14_Witness ==
    /\ run.op \in EnrichingOps
    /\ run.pc = "providers"
    /\ Len(run.base) >= 2
    /\ \A i \in Records :
          Succeeded(run.details[i]) /\ run.providers[i] = InFlight

(* C15: an item-producing operation returns items only when no fetch of    *)
(* its batches is still in flight, and what it has returned never changes  *)
(* afterwards: the list is delivered once, complete.                       *)
C15_NothingInFlight ==
    (run.op \in ItemOps /\ ReturnedItems)
    => /\ \A i \in Records :
             /\ run.details[i] # InFlight
             /\ run.providers[i] # InFlight
       /\ Len(run.result.items) = Len(run.base)

C15_DeliveredOnceComplete ==
    /\ []C15_NothingInFlight
    /\ [][(run.pc = "done" /\ run'.op = run.op) => run'.result = run.result]_vars

(* The list of a tv search with two records, both degraded.                *)
C15_Witness ==
    /\ run.op = "getTvShowByTitle"
    /\ ReturnedItems
    /\ Len(run.result.items) = 2
    /\ \A i \in Records : Failed(run.providers[i])

(* C16, as stated: every item-producing operation, discoverByGenre among   *)
(* them, issues one watch-provider lookup per base record, and an item has *)
(* watchProviders undefined only if that lookup failed or had no results.  *)
C16_OneLookupPerRecord ==
    (run.op \in ItemOps /\ ReturnedItems)
    => \A i \in Records :
          /\ Cardinality(ProviderLookups(run.base[i].id)) = 1
          /\ prop(run.result.items[i], "watchProviders") = Undefined
             => \/ Failed(run.providers[i])
                \/ /\ Succeeded(run.providers[i])
                   /\ "results" \notin DOMAIN run.providers[i].outcome.data

(* C16, amended: the five enriching operations do so, and there            *)
(* watchProviders is undefined exactly when the lookup failed or had no    *)
(* results; discoverByGenre issues no watch-provider lookup and its items  *)
(* have no watchProviders.                                                 *)
C16_EnrichingOpsLookUpEveryRecord ==
    (run.op \in ItemOps /\ ReturnedItems)
    => \A i \in Records :
          IF run.op = "discoverByGenre"
          THEN /\ ProviderLookups(run.base[i].id) = {}
               /\ "watchProviders" \notin DOMAIN run.result.items[i]
          ELSE /\ Cardinality(ProviderLookups(run.base[i].id)) = 1
               /\ run.result.items[i].watchProviders = Undefined
                  <=> \/ Failed(run.providers[i])
                      \/ /\ Succeeded(run.providers[i])
                         /\ "results" \notin DOMAIN run.providers[i].outcome.data

(* An enriching operation whose lookups both succeeded, one with offers    *)
(* and one without results.                                                *)
C16_Witness ==
    /\ run.op \in EnrichingOps
    /\ ReturnedItems
    /\ \E i, j \in Records :
          /\ Succeeded(run.providers[i])
          /\ run.result.items[i].watchProviders = Undefined
          /\ Succeeded(run.providers[j])
          /\ run.result.items[j].watchProviders = Netflix

----------------------------------------------------------------------------
(* Vocabulary of the properties of the tool handlers.                      *)

GenreResolved ==
    handler.name \in GenreTools /\ handler.step \in {"resolved", "discover"}
Matches(g, name) == toLowerCase(g.name) = toLowerCase(name)
NoMatch == \A i \in DOMAIN handler.genres : ~Matches(handler.genres[i], handler.genre)
Returned(kind) == handler.pc = "done" /\ handler.out.kind = kind
StringKinds ==
    { "apiKeyNotConfigured", "errorFetching", "unknownError", "noCollection",
      "collection", "genreNotFound", "noneFound", "noMatch", "list" }
OmdbStringKinds == { "apiKeyNotConfigured", "errorFetching", "notFound", "details" }

(* C17: in GET_TMDB_BY_GENRE and GET_ENTERTAINMENT_SUGGESTIONS, once the   *)
(* genre list has been fetched and none of its names matches the requested *)
(* one, the handler has returned its "Genre ... not found" string, and the *)
(* genre-list request is the only request made: no discover, no detail and *)
(* no ratings request follows it.                                          *)
C17_NoMatchEndsTheHandler ==
    (GenreResolved /\ NoMatch)
    => /\ Returned("genreNotFound")
       /\ requests = <<primaryRequest("getGenres", handler.mediaType, 0)>>
       /\ calls = <<>>

(* GET_ENTERTAINMENT_SUGGESTIONS asked for "Act" with Action in the list.  *)
C17_Witness ==
    /\ handler.name = "GET_ENTERTAINMENT_SUGGESTIONS"
    /\ GenreResolved
    /\ handler.genres # <<>>
    /\ handler.genre = <<"A","c","t">>
    /\ Returned("genreNotFound")

(* C18: the genre a handler resolves is the first entry of the list whose  *)
(* lowercased name equals the lowercased request; every request that       *)
(* differs from it only in letter case resolves to the same entry; and a   *)
(* request that is only a part of some genre names resolves to nothing.    *)
C18_CaseInsensitiveExactMatch ==
    GenreResolved
    => LET hits == { i \in DOMAIN handler.genres :
                       Matches(handler.genres[i], handler.genre) } IN
       /\ handler.selectedGenre =
             IF hits = {} THEN Undefined
             ELSE handler.genres[CHOOSE i \in hits : \A j \in hits : i <= j]
       /\ \A name \in GenreRequests :
             toLowerCase(name) = toLowerCase(handler.genre)
             => find(handler.genres, name) = handler.selectedGenre
       /\ ( /\ hits = {}
            /\ \E i \in DOMAIN handler.genres :
                  includes(toLowerCase(handler.genres[i].name),
                           toLowerCase(handler.genre)) )
          => handler.selectedGenre = Undefined

(* ACTION resolves to the first of two entries that match it, neither      *)
(* written the way the request is.                                         *)
C18_Witness ==
    /\ GenreResolved
    /\ handler.genre = <<"A","C","T","I","O","N">>
    /\ Len(handler.genres) = 2
    /\ \A i \in DOMAIN handler.genres :
          /\ Matches(handler.genres[i], handler.genre)
          /\ handler.genres[i].name # handler.genre
    /\ handler.selectedGenre = handler.genres[1]

(* C19: with the TMDB key configured, when the fetch of                    *)
(* getCollectionDetails has failed, whatever the failure, the operation    *)
(* has returned null, and GET_TMDB_COLLECTION_DETAILS has returned its     *)
(* "No collection found for ID ..." string and no error string.            *)
C19_CollectionFetchFailureIsSoftNull ==
    ( /\ tmdbApiKey # ""
      /\ run.op = "getCollectionDetails"
      /\ Failed(run.primary) )
    => /\ run.pc = "done"
       /\ run.result = Null
       /\ handler.name = "GET_TMDB_COLLECTION_DETAILS"
          => Returned("noCollection") /\ handler.out.id = handler.id

(* The payload of the collection broke the schema.                         *)
C19_Witness ==
    /\ tmdbApiKey # ""
    /\ run.op = "getCollectionDetails"
    /\ Failed(run.primary)
    /\ run.primary.outcome.error = "schema"
    /\ Returned("noCollection")

(* C20: a handler that has ended has returned one of its strings, whatever *)
(* the operations it awaited did; nothing it awaited has thrown past it;   *)
(* and a handler that has not ended awaits a fetch that is in flight.      *)
C20_HandlersReturnStrings ==
    /\ handler.pc = "done" => handler.out.kind \in StringKinds
    /\ handler.pc \in {"idle", "tmdb", "omdb", "done"}
    /\ handler.pc = "tmdb"
       => \/ run.pc = "primary"
          \/ /\ run.pc = "details"
             /\ \E i \in Records : run.details[i] = InFlight
          \/ /\ run.pc = "providers"
             /\ \E i \in Records : run.providers[i] = InFlight
    /\ handler.pc = "omdb" => calls[Len(calls)].pc = "fetch"
    /\ \A c \in DOMAIN calls :
          calls[c].tool = "GET_OMDB_INFO"
          => IF calls[c].pc = "done" THEN calls[c].out.kind \in OmdbStringKinds
             ELSE calls[c].pc = "fetch"

(* What a handler awaited threw a value that is not an Error.              *)
C20_Witness ==
    /\ Returned("unknownError")
    /\ run.result = ThrownValue
----------------------------------------------------------------------------
(* Vocabulary of the properties about the keys.                            *)

ThrewAtOnce(call) ==
    /\ call.pc = "done"
    /\ call.result = Thrown(ApiKeyMessage)
    /\ call.reqs = <<>>
    /\ call.resps = <<>>
    /\ call.curType = call.type

(* A Map that holds a record under every key a lookup of "Up" or of an id  *)
(* can ask for.                                                            *)
FullMemo ==
    [k \in { titleCacheKey(<<"U","p">>, type) : type \in Hints }
           \cup { idCacheKey(imdbId) : imdbId \in ImdbIds }
        |-> normalize(FullRecord)]

(* C21: with the TMDB key empty, an operation of TmdbService that has been *)
(* called has thrown "TMDB API key is not configured" with no request      *)
(* issued, and the handler that awaited it has returned its "API key is    *)
(* not configured" string.  With the OMDB key empty, every call of         *)
(* getByTitle, getImdbSummary and getByImdbId has thrown "OMDB API key is  *)
(* not configured" with no request issued and no retry, whatever the memo  *)
(* holds; GET_OMDB_INFO has returned its "API key is not configured"       *)
(* string, and so has GET_ENTERTAINMENT_SUGGESTIONS at the first ratings   *)
(* lookup, which is its only one.                                          *)
C21_UnconfiguredKeyThrowsAtOnce ==
    /\ (tmdbApiKey = "" /\ run.op # "none")
       => /\ run.pc = "done"
          /\ run.result = Thrown(TmdbKeyMessage)
          /\ run.primary = Unissued
          /\ requests = <<>>
          /\ handler.name # "none" => Returned("apiKeyNotConfigured")
    /\ omdbApiKey = ""
       => /\ \A c \in DOMAIN calls :
                /\ ThrewAtOnce(Call(c))
                /\ Call(c).tool = "GET_OMDB_INFO"
                   => Call(c).out.kind = "apiKeyNotConfigured"
                /\ Call(c).tool = "GET_ENTERTAINMENT_SUGGESTIONS"
                   => Len(calls) = 1 /\ Returned("apiKeyNotConfigured")
          /\ \A s \in DOMAIN cache : cache[s] = EmptyMap
          /\ \A type \in Hints :
                ThrewAtOnce(getByTitleEnter(
                    [newCall("getByTitle", 1, <<"U","p">>, type, "none")
                         EXCEPT !.startT = 1], FullMemo))
          /\ \A imdbId \in ImdbIds :
                ThrewAtOnce(getByImdbIdEnter(
                    [newCall("getByImdbId", 1, imdbId, NoType, "none")
                         EXCEPT !.startT = 1], FullMemo))

(* GET_ENTERTAINMENT_SUGGESTIONS with the TMDB key configured and the OMDB *)
(* key not: two movies with an imdbId were discovered, the first ratings   *)
(* lookup threw and the handler returned the message.                      *)
C21_Witness ==
    /\ tmdbApiKey # ""
    /\ omdbApiKey = ""
    /\ handler.name = "GET_ENTERTAINMENT_SUGGESTIONS"
    /\ Len(handler.tmdbMovies) = 2
    /\ \A i \in DOMAIN handler.tmdbMovies : truthy(handler.tmdbMovies[i].imdbId)
    /\ Len(calls) = 1
    /\ ThrewAtOnce(Call(1))
    /\ Returned("apiKeyNotConfigured")

----------------------------------------------------------------------------
(* Vocabulary of the properties about errors.                              *)

SchemaViolation(status) == Failed(status) /\ status.outcome.error = "schema"
ErrorText(out) == out.kind = "errorFetching" /\ out.message = Invalid

(* C22: when the payload of a primary request has broken its schema        *)
(* (search, trending, popular, discover, genre list, collection details),  *)
(* the handler has returned its "Error ...: <message>" string, and when    *)
(* the payload of the ratings lookup of GET_OMDB_INFO has broken its       *)
(* schema the tool has returned an error string too: never a not-found or  *)
(* an empty-result string.                                                 *)
C22_SchemaViolationPropagates ==
    /\ (handler.name # "none" /\ SchemaViolation(run.primary))
       => handler.pc = "done" /\ ErrorText(handler.out)
    /\ \A c \in DOMAIN calls :
          ( /\ Call(c).tool = "GET_OMDB_INFO"
            /\ Len(Call(c).resps) > 0
            /\ Call(c).resps[Len(Call(c).resps)] = Rejected("schema") )
          => Call(c).out.kind = "errorFetching"

----------------------------------------------------------------------------
(* Vocabulary of the properties about the shaping of records.              *)

Returns(tag) == run.pc = "done" /\ run.result.tag = tag
Answer == run.primary.outcome.data
ImageBase == "https://image.tmdb.org/t/p/w500"

(* The URL documented for a provider path.                                 *)
UrlFor(path) ==
    IF path \in {Null, Undefined, Str("")} THEN Str("")
    ELSE Str(ImageBase \o path.value)

(* C23: the posterUrl of every item, the profilePath of every person, the  *)
(* posterUrl and backdropUrl of every collection and the posterUrl of      *)
(* every collection part is "" when the provider path is null, absent or   *)
(* empty, and the image base followed by the path otherwise.               *)
C23_ImageUrls ==
    /\ Returns("items")
       => \A i \in Records :
             run.result.items[i].posterUrl = UrlFor(prop(run.base[i], "poster_path"))
    /\ Returns("people")
       => \A i \in DOMAIN Answer.results :
             run.result.people[i].profilePath =
                 UrlFor(prop(Answer.results[i], "profile_path"))
    /\ Returns("collections")
       => \A i \in DOMAIN Answer.results :
             LET c == run.result.collections[i] IN
             /\ c.posterUrl = UrlFor(prop(Answer.results[i], "poster_path"))
             /\ c.backdropUrl = UrlFor(prop(Answer.results[i], "backdrop_path"))
    /\ Returns("collection")
       => LET c == run.result.collection IN
          /\ c.posterUrl = UrlFor(prop(Answer, "poster_path"))
          /\ c.backdropUrl = UrlFor(prop(Answer, "backdrop_path"))
          /\ Len(c.parts) = Len(Answer.parts)
          /\ \A i \in DOMAIN Answer.parts :
                c.parts[i].posterUrl = UrlFor(prop(Answer.parts[i], "poster_path"))

(* A collection with an empty poster path and a backdrop path.             *)
C23_Witness ==
    /\ Returns("collection")
    /\ Answer.poster_path = Str("")
    /\ run.result.collection.posterUrl = Str("")
    /\ Answer.backdrop_path = Str("/up.jpg")
    /\ run.result.collection.backdropUrl =
           Str("https://image.tmdb.org/t/p/w500/up.jpg")

(* The value documented for a nullable field.                              *)
OrDefault(v, d) == IF v = Null THEN d ELSE v

(* The external id a detail payload carries, if any.                       *)
ExternalId(kind, data) ==
    IF kind = "movie"
    THEN IF "imdb_id" \in DOMAIN data THEN data.imdb_id ELSE Null
    ELSE IF "external_ids" \notin DOMAIN data \/ data.external_ids = Null THEN Null
    ELSE IF "imdb_id" \in DOMAIN data.external_ids
    THEN data.external_ids.imdb_id ELSE Null

(* C24: an item-producing operation throws only when one of its fetches    *)
(* has failed, never because of the shape of a record; and in the items it *)
(* returns, whatever fields of the base record are null, description is    *)
(* the overview or "No description available." for a null one, rating is   *)
(* vote_average or 0, language is original_language or "Unknown", and      *)
(* imdbId is the imdb_id of the detail payload or null when it has none    *)
(* (TV: also when external_ids is null or absent).                         *)
C24_NormalizationDefaults ==
    run.op \in ItemOps
    => /\ Rejects
          => \/ Failed(run.primary)
             \/ \E i \in Records : Failed(run.details[i])
       /\ ReturnedItems
          => \A i \in Records :
                LET rec == run.base[i]
                    item == run.result.items[i]
                    kind == detailKind(run.op, run.mediaType, rec) IN
                /\ item.description =
                      OrDefault(rec.overview, Str("No description available."))
                /\ item.rating = OrDefault(rec.vote_average, Num(0))
                /\ item.language = OrDefault(rec.original_language, Str("Unknown"))
                /\ item.imdbId =
                      IF kind = "none" THEN Null
                      ELSE ExternalId(kind, run.details[i].outcome.data)

(* A tv record whose nullable fields are all null, with a detail payload   *)
(* whose external_ids is null.                                             *)
C24_Witness ==
    /\ run.op = "getTvShowByTitle"
    /\ ReturnedItems
    /\ Len(run.base) = 1
    /\ \A f \in {"overview", "vote_average", "original_language", "poster_path",
                 "first_air_date"} : run.base[1][f] = Null
    /\ prop(run.details[1].outcome.data, "external_ids") = Null
    /\ run.result.items[1].description = Str("No description available.")
    /\ run.result.items[1].rating = Num(0)
    /\ run.result.items[1].language = Str("Unknown")
    /\ run.result.items[1].imdbId = Null

(* The date the provider gives for a record of the item's type.            *)
ProviderDate(rec, type) ==
    prop(rec, IF type = "movie" THEN "release_date" ELSE "first_air_date")

GenreMovies == run.op = "discoverByGenre" /\ run.mediaType = "movie"

----------------------------------------------------------------------------
(* Vocabulary of the properties of GET_ENTERTAINMENT_SUGGESTIONS.          *)

Suggesting ==
    handler.name = "GET_ENTERTAINMENT_SUGGESTIONS" /\ handler.step = "discover"
ErrorKinds == { "apiKeyNotConfigured", "errorFetching", "unknownError" }

(* The positions of the discovered movies that have an imdbId, in discover *)
(* order: the k-th ratings lookup is for the k-th of them.                 *)
Lookups ==
    SelectSeq([j \in DOMAIN handler.tmdbMovies |-> j],
              LAMBDA j : truthy(handler.tmdbMovies[j].imdbId))

(* The lookup gave a record whose rating is a number and high enough.      *)
Qualifies(result) ==
    /\ result.tag = "item"
    /\ gte(parseFloat(result.item.rating), nullish(handler.minImdbRating, Num(0)))

(* The movies whose own lookup, among those that returned, qualifies.      *)
Kept ==
    LET done == SelectSeq([k \in DOMAIN calls |-> k],
                          LAMBDA k : Call(k).pc = "done" /\ Qualifies(Call(k).result)) IN
    [n \in DOMAIN done |-> handler.tmdbMovies[Lookups[done[n]]]]

(* C26: in GET_ENTERTAINMENT_SUGGESTIONS a ratings lookup that returned    *)
(* null never ends the tool with an error string: the loop goes on to the  *)
(* next movie, so that the tool ends only when every movie with an imdbId  *)
(* has been looked up; and whether a movie is kept depends on its own      *)
(* lookup alone: the kept movies are exactly those whose own lookup gave a *)
(* qualifying record, whatever the other lookups gave.                     *)
C26_FailedLookupSkipsOneItem ==
    Suggesting
    => /\ Len(calls) <= Len(Lookups)
       /\ handler.suggestedMovies = Kept
       /\ (\E c \in DOMAIN calls : Call(c).result = Null)
          => /\ ~(handler.pc = "done" /\ handler.out.kind \in ErrorKinds)
             /\ handler.pc = "done"
                => /\ Len(calls) = Len(Lookups)
                   /\ handler.out.kind \in {"list", "noMatch"}

(* The lookup of the first movie failed, the lookup of the second was      *)
(* answered not-found, the third movie is listed.                          *)
C26_Witness ==
    /\ Suggesting
    /\ Returned("list")
    /\ Len(calls) >= 3
    /\ Call(1).resps = <<Rejected("transport")>>
    /\ Call(1).result = Null
    /\ Call(2).resps = <<Resolved(MovieNotFound)>>
    /\ Call(2).result = Null
    /\ Qualifies(Call(3).result)
    /\ handler.out.entries[1] = handler.tmdbMovies[3]

(* C30: the movies GET_ENTERTAINMENT_SUGGESTIONS lists are the first five, *)
(* in discover order, of the movies that have a non-empty imdbId and whose *)
(* ratings record has a numeric rating >= minImdbRating (>= 0 when none is *)
(* given): a movie rated "N/A" is never listed.  The k-th ratings lookup   *)
(* is for the k-th movie that has an imdbId, it starts after the lookup    *)
(* before it has returned, and it issues at most one request; a movie      *)
(* without imdbId gets no lookup.                                          *)
C30_SuggestionsFilter ==
    Suggesting
    => /\ Len(calls) <= Len(Lookups)
       /\ \A k \in DOMAIN calls :
             /\ Call(k).op = "getByImdbId"
             /\ Call(k).arg = handler.tmdbMovies[Lookups[k]].imdbId.value
             /\ Len(Call(k).reqs) <= 1
             /\ k > 1 => /\ Call(k - 1).pc = "done"
                         /\ Call(k - 1).endT < Call(k).startT
       /\ Returned("list")
          => LET entries == handler.out.entries IN
             /\ Len(entries) <= 5
             /\ entries = SubSeq(Kept, 1, Len(entries))
             /\ Len(entries) < 5 => entries = Kept
             /\ \A n \in DOMAIN entries :
                   \E k \in DOMAIN calls :
                      /\ entries[n] = handler.tmdbMovies[Lookups[k]]
                      /\ truthy(entries[n].imdbId)
                      /\ Call(k).result.tag = "item"
                      /\ Call(k).result.item.rating # "N/A"
                      /\ gte(parseFloat(Call(k).result.item.rating),
                             nullish(handler.minImdbRating, Num(0)))
       /\ (Returned("list") \/ Returned("noMatch")) => Len(calls) = Len(Lookups)

(* More than five movies qualify and five are listed.                      *)
C30_Witness ==
    /\ Suggesting
    /\ Returned("list")
    /\ Len(handler.suggestedMovies) > 5
    /\ Len(handler.out.entries) = 5
    /\ handler.minImdbRating = Num(80)

----------------------------------------------------------------------------
(* Vocabulary of the properties about what the memo holds.                 *)

(* A fetch of call c settles in this step.                                 *)
SettlesNow(c) ==
    /\ c \in DOMAIN calls
    /\ Len(calls'[c].resps) > Len(calls[c].resps)

(* The memo key that belongs to a request.                                 *)
KeyOfRequest(request) ==
    IF "i" \in DOMAIN request THEN <<"id", request.i>>
    ELSE <<"title", IF "type" \in DOMAIN request THEN request.type ELSE "auto",
           toLowerCase(request.t)>>

(* C27: a step changes the memo of a service only when a fetch of a        *)
(* getByTitle or getByImdbId call on it settles with a response whose      *)
(* Response is not "False", and then it only stores the normalized record  *)
(* of that response under the key of the request that was answered (for a  *)
(* retry, the key with the retry's type).  A fetch that settles with       *)
(* not-found, a transport failure or a validation failure, and every other *)
(* step, leaves every memo as it was.                                      *)
C27_MemoHoldsOnlyFetchedRecords ==
    [][ /\ \A c \in DOMAIN calls :
              SettlesNow(c)
              => LET call == calls'[c]
                     n == Len(call.resps)
                     o == call.resps[n] IN
                 IF Found(o) /\ call.op # "getImdbSummary"
                 THEN cache' = [cache EXCEPT ![call.svc] =
                                   set(@, KeyOfRequest(call.reqs[n]), normalize(o.data))]
                 ELSE cache' = cache
        /\ (\A c \in DOMAIN calls : ~SettlesNow(c))
           => \/ cache' = cache
              \/ cache' = Append(cache, EmptyMap)
      ]_vars

(* An untyped title lookup was answered not-found, its retry fetched a     *)
(* record, and the memo holds it under the retry's key only.               *)
C27_Witness ==
    \E c \in DOMAIN calls :
        LET call == Call(c) IN
        /\ call.op = "getByTitle"
        /\ call.type = NoType
        /\ Len(call.resps) = 2
        /\ NotFound(call.resps[1])
        /\ Found(call.resps[2])
        /\ DOMAIN cache[call.svc] = { <<"title", call.curType, toLowerCase(call.arg)>> }
        /\ cache[call.svc][<<"title", call.curType, toLowerCase(call.arg)>>]
               = normalize(call.resps[2].data)

----------------------------------------------------------------------------
(* Vocabulary of the properties about the "not configured" message.        *)

(* C28: when a handler has returned its "API key is not configured"        *)
(* message, the key of the service it used is not configured; with the key *)
(* configured an Error thrown by a request is rendered as the generic      *)
(* "Error ...: <message>" text, whatever its message is.                   *)
C28_KeyMessageOnlyWhenUnconfigured ==
    /\ Returned("apiKeyNotConfigured")
       => \/ tmdbApiKey = ""
          \/ handler.name = "GET_ENTERTAINMENT_SUGGESTIONS" /\ omdbApiKey = ""
    /\ /\ handler.pc = "done"
       /\ tmdbApiKey # ""
       /\ run.pc = "done"
       /\ run.result.tag = "throw"
       => /\ handler.out.kind = "errorFetching"
          /\ handler.out.message = run.result.message

----------------------------------------------------------------------------
(* Vocabulary of the properties of getTrending.                            *)

PersonRows == { i \in Records : run.base[i].media_type = "person" }
DetailLookups(id) ==
    { k \in DOMAIN requests : requests[k].kind = "detail" /\ requests[k].id = id }
FirstOf(rec, fields) ==
    IF prop(rec, fields[1]) \notin {Null, Undefined} THEN prop(rec, fields[1])
    ELSE IF prop(rec, fields[2]) \notin {Null, Undefined} THEN prop(rec, fields[2])
    ELSE Str("Unknown")

(* C29: in getTrending no detail request is ever issued for a record whose *)
(* media_type is "person"; when the operation has returned, every item has *)
(* type movie or tv and the title of its record, else its name, else       *)
(* "Unknown", and the item of a person record has imdbId null and type     *)
(* "tv", and a watch-provider request with the tv path and the person's id *)
(* has been issued.                                                        *)
C29_TrendingPerson ==
    run.op = "getTrending"
    => /\ \A i \in PersonRows :
             /\ run.details[i].st \notin {"pending", "settled"}
             /\ DetailLookups(run.base[i].id) = {}
       /\ ReturnedItems
          => /\ \A i \in Records :
                   /\ run.result.items[i].type \in {"movie", "tv"}
                   /\ run.result.items[i].title = FirstOf(run.base[i], <<"title", "name">>)
             /\ \A i \in PersonRows :
                   /\ run.result.items[i].imdbId = Null
                   /\ run.result.items[i].type = "tv"
                   /\ \E k \in ProviderLookups(run.base[i].id) :
                         requests[k].path = <<"tv", "watch", "providers">>

(* getTrending has returned the items of a person and a movie: the movie   *)
(* got its detail request, the person none.                                *)
C29_Witness ==
    /\ run.op = "getTrending"
    /\ ReturnedItems
    /\ Len(run.base) = 2
    /\ run.base[1].media_type = "person"
    /\ run.base[2].media_type = "movie"
    /\ run.details[1] = NotFetched
    /\ Succeeded(run.details[2])
    /\ run.result.items[1].type = "tv"
    /\ run.result.items[1].title = Str("Ed Asner")
    /\ run.result.items[1].imdbId = Null
    /\ run.result.items[2].type = "movie"
    /\ \E k \in DOMAIN requests :
          requests[k] = providersRequest("tv", run.base[1].id)
====
